---- MODULE Spec2Model ----
(***************************************************************************)
(* Model of the indoor-metadata extraction service                         *)
(* (locationDetector/src/metadata_extractor.py, models.py, config.py).     *)
(*                                                                         *)
(* Confidences and quality scores are fixed-point tenths: 5 stands for     *)
(* 0.5, 10 for 1.0, 12 for 1.2, -2 for -0.2.                               *)
(*                                                                         *)
(* A JSON value of the vision service's raw response is a tagged record:   *)
(*   [ty |-> "number", val |-> n]          a number                        *)
(*   [ty |-> "string", val |-> s, pad |-> k]  the string s surrounded by   *)
(*                                         k whitespace characters         *)
(*   [ty |-> "bool", val |-> b], [ty |-> "null"]                           *)
(*   [ty |-> "list", val |-> <<...>>]      a JSON array                    *)
(*   [ty |-> "dict", val |-> f]            a JSON object; DOMAIN f is the  *)
(*                                         set of keys that are present    *)
(* The raw response itself is such an f: a function from the keys that are *)
(* present to their values.                                                *)
(***************************************************************************)
EXTENDS Integers, Sequences, FiniteSets, TLC

\* ------------------------------------------------------------------------
\* Bounds of the model
\* ------------------------------------------------------------------------
MaxRetriesBound == 3
MaxBatchRetries == 2
MaxFrames == 3
MaxConcurrentBound == 2
MaxFairFrames == 2
MaxItems == 2
MaxUpload == 52
MaxMixed == 3
MaxStored == 2

\* ------------------------------------------------------------------------
\* JSON values
\* ------------------------------------------------------------------------
Num(n) == [ty |-> "number", val |-> n]
PaddedStr(s, k) == [ty |-> "string", val |-> s, pad |-> k]
Str(s) == PaddedStr(s, 0)
Bool(b) == [ty |-> "bool", val |-> b]
Null == [ty |-> "null"]
List(items) == [ty |-> "list", val |-> items]
Dict(f) == [ty |-> "dict", val |-> f]

Has(d, k) == k \in DOMAIN d
Put(d, k, v) == [x \in (DOMAIN d) \cup {k} |-> IF x = k THEN v ELSE d[x]]

\* ------------------------------------------------------------------------
\* models.py: the closed enumerations and the field constraints
\* ------------------------------------------------------------------------
SceneTypes ==
    {"hallway", "room", "lobby", "stairwell", "elevator_area",
     "corridor_intersection", "entrance", "unknown"}
LightingQualities == {"good", "dim", "poor", "backlit"}
LandmarkTypes ==
    {"door", "staircase", "stairs_up", "stairs_down", "elevator", "exit_sign",
     "fire_extinguisher", "room_number_plaque", "elevator_button_panel",
     "emergency_exit_door", "restroom_sign", "water_fountain",
     "floor_directory", "hallway_intersection", "corridor_junction"}
Directions == {"left", "right", "ahead", "behind"}
Distances == {"very_close", "near", "mid", "far"}

\* a float field is validated in lax mode: besides numbers it takes a string
\* that spells a number, and parses it
NumericStrings == {"0.9", "0.4", "1.5"}
StrToFloat(s) == CASE s = "0.9" -> 9 [] s = "0.4" -> 4 [] s = "1.5" -> 15
IsFloat(v) ==
    \/ v.ty = "number"
    \/ v.ty = "string" /\ v.pad = 0 /\ v.val \in NumericStrings
FloatValue(v) == IF v.ty = "number" THEN v.val ELSE StrToFloat(v.val)
\* Field(..., ge=0.0, le=1.0) on a float field
ConfidenceField(v) == IsFloat(v) /\ FloatValue(v) >= 0 /\ FloatValue(v) <= 10
\* a Literal[...] field: the exact string, nothing around it
LiteralField(v, members) == v.ty = "string" /\ v.pad = 0 /\ v.val \in members
\* an Optional[str] field
OptionalStrField(v) == v.ty \in {"string", "null"}

\* TextDetection.text_not_empty: rejects "not v or not v.strip()",
\* returns v.strip()
text_not_empty(v) == v.val # ""
strip(v) == v.val

\* TextDetection(**item) passes validation
TextDetectionValid(item) ==
    /\ item.ty = "dict"
    /\ Has(item.val, "text")
    /\ item.val["text"].ty = "string"
    /\ text_not_empty(item.val["text"])
    /\ Has(item.val, "confidence")
    /\ ConfidenceField(item.val["confidence"])
    /\ (Has(item.val, "includes_arrow") => item.val["includes_arrow"].ty = "bool")

TextDetectionArrowSet(item) ==
    [text |-> strip(item.val["text"]),
     confidence |-> FloatValue(item.val["confidence"]),
     includes_arrow |-> IF Has(item.val, "includes_arrow")
                        THEN item.val["includes_arrow"].val ELSE TRUE]

\* the TextDetection instance built from a valid item
TextDetection(item) ==
    [text |-> strip(item.val["text"]),
     confidence |-> FloatValue(item.val["confidence"]),
     includes_arrow |-> IF Has(item.val, "includes_arrow")
                        THEN item.val["includes_arrow"].val ELSE FALSE]

\* Landmark(**item) passes validation
LandmarkValid(item) ==
    /\ item.ty = "dict"
    /\ Has(item.val, "type")
    /\ LiteralField(item.val["type"], LandmarkTypes)
    /\ Has(item.val, "direction")
    /\ LiteralField(item.val["direction"], Directions)
    /\ Has(item.val, "distance")
    /\ LiteralField(item.val["distance"], Distances)
    /\ Has(item.val, "confidence")
    /\ ConfidenceField(item.val["confidence"])
    /\ (Has(item.val, "additional_info")
          => OptionalStrField(item.val["additional_info"]))

\* the Landmark instance built from a valid item; None is the empty tuple
Landmark(item) ==
    [type |-> item.val["type"].val,
     direction |-> item.val["direction"].val,
     distance |-> item.val["distance"].val,
     confidence |-> FloatValue(item.val["confidence"]),
     additional_info |->
        IF Has(item.val, "additional_info")
              /\ item.val["additional_info"].ty = "string"
        THEN <<item.val["additional_info"].val>> ELSE <<>>]

\* list[TextDetection], list[Landmark] and list[str] fields
TextListValid(v) ==
    v.ty = "list" /\ \A n \in 1..Len(v.val) : TextDetectionValid(v.val[n])
LandmarkListValid(v) ==
    v.ty = "list" /\ \A n \in 1..Len(v.val) : LandmarkValid(v.val[n])
StrListValid(v) ==
    v.ty = "list" /\ \A n \in 1..Len(v.val) : v.val[n].ty = "string"

\* IndoorMetadata(**raw) passes validation
IndoorMetadataValid(raw) ==
    /\ Has(raw, "scene_type")
    /\ LiteralField(raw["scene_type"], SceneTypes)
    /\ Has(raw, "scene_confidence")
    /\ ConfidenceField(raw["scene_confidence"])
    /\ (Has(raw, "text_detected")
          => TextListValid(raw["text_detected"]))
    /\ (Has(raw, "landmarks") => LandmarkListValid(raw["landmarks"]))
    /\ (Has(raw, "relative_position_cues")
          => StrListValid(raw["relative_position_cues"]))
    /\ (Has(raw, "lighting_quality")
          => LiteralField(raw["lighting_quality"], LightingQualities))
    /\ (Has(raw, "motion_blur_detected")
          => raw["motion_blur_detected"].ty = "bool")
    /\ Has(raw, "frame_quality_score")
    /\ ConfidenceField(raw["frame_quality_score"])
    /\ (Has(raw, "processing_notes")
          => OptionalStrField(raw["processing_notes"]))

\* the IndoorMetadata instance built from a valid raw map, with the field
\* defaults of models.py; processing_notes is a tuple of text fragments,
\* the empty tuple being None
IndoorMetadata(raw) ==
    [scene_type |-> raw["scene_type"].val,
     scene_confidence |-> FloatValue(raw["scene_confidence"]),
     text_detected |->
        IF Has(raw, "text_detected")
        THEN [n \in 1..Len(raw["text_detected"].val) |->
                 TextDetection(raw["text_detected"].val[n])]
        ELSE <<>>,
     landmarks |->
        IF Has(raw, "landmarks")
        THEN [n \in 1..Len(raw["landmarks"].val) |->
                 Landmark(raw["landmarks"].val[n])]
        ELSE <<>>,
     relative_position_cues |->
        IF Has(raw, "relative_position_cues")
        THEN [n \in 1..Len(raw["relative_position_cues"].val) |->
                 raw["relative_position_cues"].val[n].val]
        ELSE <<>>,
     lighting_quality |->
        IF Has(raw, "lighting_quality")
        THEN raw["lighting_quality"].val ELSE "good",
     motion_blur_detected |->
        IF Has(raw, "motion_blur_detected")
        THEN raw["motion_blur_detected"].val ELSE FALSE,
     frame_quality_score |-> FloatValue(raw["frame_quality_score"]),
     processing_notes |->
        IF Has(raw, "processing_notes")
              /\ raw["processing_notes"].ty = "string"
        THEN <<raw["processing_notes"].val>> ELSE <<>>]

\* ------------------------------------------------------------------------
\* metadata_extractor.py: schema repair
\* ------------------------------------------------------------------------
Min2(a, b) == IF b < a THEN b ELSE a
Max2(a, b) == IF b > a THEN b ELSE a
ClampUpperOnly(n) == Min2(10, n)

\* max(0.0, min(1.0, x)) on a number
Clamp(n) == Max2(0, Min2(10, n))
\* max/min against a float raise TypeError on anything that is not a number
ClampRaises(v) == v.ty # "number"

\* "for item in value": a list yields its elements, a string yields its
\* characters (never dicts, so every one is skipped), anything else in the
\* model's value domain (null, number, bool) is not iterable: TypeError
IterRaises(v) == v.ty \notin {"list", "string"}
IterItems(v) == IF v.ty = "list" THEN v.val ELSE <<>>

\* the entries the text loop keeps: dicts that carry "text"
TextKept(item) == item.ty = "dict" /\ Has(item.val, "text")
LandmarkKeptOnAnyKey(item) ==
    item.ty = "dict"
    /\ \E k \in {"type", "direction", "distance"} : Has(item.val, k)

\* the entries the landmark loop keeps: dicts that carry all three keys
LandmarkKept(item) ==
    item.ty = "dict"
    /\ \A k \in {"type", "direction", "distance"} : Has(item.val, k)

FixConfidenceDefaultsToZero(item) ==
    LET d == IF Has(item.val, "confidence") THEN item.val
             ELSE Put(item.val, "confidence", Num(0))
    IN Dict(Put(d, "confidence", Num(Clamp(d["confidence"].val))))

\* the body of both loops for a kept entry: default the confidence, clamp it
FixConfidence(item) ==
    LET d == IF Has(item.val, "confidence") THEN item.val
             ELSE Put(item.val, "confidence", Num(5))
    IN Dict(Put(d, "confidence", Num(Clamp(d["confidence"].val))))
FixConfidenceRaises(item) ==
    Has(item.val, "confidence") /\ ClampRaises(item.val["confidence"])

\* the text loop of lines 166-174
FixTexts(v) ==
    LET kept == SelectSeq(IterItems(v), TextKept)
    IN List([n \in 1..Len(kept) |-> FixConfidence(kept[n])])
FixTextsRaises(v) ==
    \/ IterRaises(v)
    \/ \E n \in 1..Len(IterItems(v)) :
          TextKept(IterItems(v)[n]) /\ FixConfidenceRaises(IterItems(v)[n])

\* the landmark loop of lines 177-185
FixLandmarks(v) ==
    LET kept == SelectSeq(IterItems(v), LandmarkKept)
    IN List([n \in 1..Len(kept) |-> FixConfidence(kept[n])])
FixLandmarksRaises(v) ==
    \/ IterRaises(v)
    \/ \E n \in 1..Len(IterItems(v)) :
          LandmarkKept(IterItems(v)[n]) /\ FixConfidenceRaises(IterItems(v)[n])

EnsureRequiredKeepsSceneConfidence(raw_data) ==
    LET f1 == IF ~Has(raw_data, "scene_type")
              THEN Put(raw_data, "scene_type", Str("unknown"))
              ELSE raw_data
        f2 == IF ~Has(f1, "scene_confidence")
              THEN Put(f1, "scene_confidence", Num(5)) ELSE f1
    IN IF ~Has(f2, "frame_quality_score")
       THEN Put(f2, "frame_quality_score", Num(5)) ELSE f2

\* the first three steps of _attempt_fix_validation_errors: required fields
EnsureRequired(raw_data) ==
    LET f1 == IF ~Has(raw_data, "scene_type")
              THEN Put(Put(raw_data, "scene_type", Str("unknown")),
                       "scene_confidence", Num(3))
              ELSE raw_data
        f2 == IF ~Has(f1, "scene_confidence")
              THEN Put(f1, "scene_confidence", Num(5)) ELSE f1
    IN IF ~Has(f2, "frame_quality_score")
       THEN Put(f2, "frame_quality_score", Num(5)) ELSE f2

\* _attempt_fix_validation_errors raises TypeError
attempt_fix_validation_errors_raises(raw_data) ==
    LET f == EnsureRequired(raw_data)
    IN \/ ClampRaises(f["scene_confidence"])
       \/ ClampRaises(f["frame_quality_score"])
       \/ Has(f, "text_detected") /\ FixTextsRaises(f["text_detected"])
       \/ Has(f, "landmarks") /\ FixLandmarksRaises(f["landmarks"])

\* the map _attempt_fix_validation_errors returns when it does not raise
attempt_fix_validation_errors(raw_data) ==
    LET f3 == EnsureRequired(raw_data)
        f4 == Put(f3, "scene_confidence",
                  Num(Clamp(f3["scene_confidence"].val)))
        f5 == Put(f4, "frame_quality_score",
                  Num(Clamp(f4["frame_quality_score"].val)))
        f6 == IF Has(f5, "text_detected")
              THEN Put(f5, "text_detected", FixTexts(f5["text_detected"]))
              ELSE f5
    IN IF Has(f6, "landmarks")
       THEN Put(f6, "landmarks", FixLandmarks(f6["landmarks"]))
       ELSE f6

\* _validate_and_parse: the IndoorMetadata, or the exception that leaves it
validate_and_parse(raw_metadata) ==
    IF IndoorMetadataValid(raw_metadata)
    THEN [status |-> "ok", metadata |-> IndoorMetadata(raw_metadata)]
    ELSE IF attempt_fix_validation_errors_raises(raw_metadata)
    THEN [status |-> "TypeError"]
    ELSE IF IndoorMetadataValid(attempt_fix_validation_errors(raw_metadata))
    THEN [status |-> "ok",
          metadata |->
             IndoorMetadata(attempt_fix_validation_errors(raw_metadata))]
    ELSE [status |-> "ValidationError"]

\* ------------------------------------------------------------------------
\* metadata_extractor.py: confidence filtering and fallback synthesis
\* ------------------------------------------------------------------------
\* variant: an entry exactly at the threshold is removed
AtLeastStrict(entry, threshold) == entry.confidence > threshold

\* the test of both comprehensions
AtLeast(entry, threshold) == entry.confidence >= threshold

\* variant: each list is assigned to the other field
apply_confidence_filtering_crossed(metadata, threshold) ==
    [metadata EXCEPT
       !.text_detected =
          SelectSeq(metadata.landmarks,
                    LAMBDA landmark : AtLeast(landmark, threshold)),
       !.landmarks =
          SelectSeq(metadata.text_detected,
                    LAMBDA text : AtLeast(text, threshold))]

\* variant: nothing is filtered out
apply_confidence_filtering_keeps_all(metadata, threshold) == metadata

apply_confidence_filtering(metadata, threshold) ==
    [metadata EXCEPT
       !.text_detected =
          SelectSeq(metadata.text_detected,
                    LAMBDA text : AtLeast(text, threshold)),
       !.landmarks =
          SelectSeq(metadata.landmarks,
                    LAMBDA landmark : AtLeast(landmark, threshold))]

\* objects is the sequence of metadata objects alive, a reference is an
\* index into it
\* variant: no copy is taken, the name is bound to the object itself
model_copy_same_object(objects, ref) == [objects |-> objects, ref |-> ref]

\* metadata.model_copy(): a new object with the field values of the old one
model_copy(objects, ref) ==
    [objects |-> Append(objects, objects[ref]), ref |-> Len(objects) + 1]

\* _apply_confidence_filtering on objects: the two lists are computed from
\* the argument and assigned to the fields of the copy, which is returned
apply_confidence_filtering_to(objects, ref, threshold) ==
    LET kept == apply_confidence_filtering(objects[ref], threshold)
        copy == model_copy(objects, ref)
    IN [objects |-> [copy.objects EXCEPT
                        ![copy.ref].text_detected = kept.text_detected,
                        ![copy.ref].landmarks = kept.landmarks],
        ref |-> copy.ref]

\* variant: the confidence of the repair default instead of 0.1
create_fallback_metadata_at_repair_default(error_msg) ==
    [scene_type |-> "unknown",
     scene_confidence |-> 3,
     text_detected |-> <<>>,
     landmarks |-> <<>>,
     relative_position_cues |-> <<>>,
     lighting_quality |-> "poor",
     motion_blur_detected |-> TRUE,
     frame_quality_score |-> 2,
     processing_notes |-> <<"Extraction failed: ">> \o error_msg]

\* error_msg is a tuple of text fragments
create_fallback_metadata(error_msg) ==
    [scene_type |-> "unknown",
     scene_confidence |-> 1,
     text_detected |-> <<>>,
     landmarks |-> <<>>,
     relative_position_cues |-> <<>>,
     lighting_quality |-> "poor",
     motion_blur_detected |-> TRUE,
     frame_quality_score |-> 2,
     processing_notes |-> <<"Extraction failed: ">> \o error_msg]

\* ------------------------------------------------------------------------
\* Raw results the vision service client may hand back (bounded inputs)
\* ------------------------------------------------------------------------
SeqsUpTo(S, n) == UNION {[1..k -> S] : k \in 0..n}
Restrict(f, K) == [k \in K |-> f[k]]

ValidBase ==
    [scene_type |-> Str("hallway"), scene_confidence |-> Num(9),
     frame_quality_score |-> Num(8)]

\* every presence/absence of the three required keys, with good, out-of-range,
\* out-of-enumeration and non-numeric values
SceneCores ==
    {Restrict(full, K) :
        full \in [scene_type : {Str("hallway"), Str("garage")},
                  scene_confidence : {Num(9), Num(12), Str("high")},
                  frame_quality_score : {Num(8), Num(-2)}],
        K \in SUBSET {"scene_type", "scene_confidence", "frame_quality_score"}}

TextItemChoices ==
    {Dict([text |-> Str("Room 312"), confidence |-> Num(9)]),
     Dict([text |-> Str("EXIT"), confidence |-> Num(3)]),
     Dict([text |-> PaddedStr("Floor 3", 1), confidence |-> Num(5)]),
     Dict([text |-> Str("STAIRS"), confidence |-> Num(12),
           includes_arrow |-> Bool(TRUE)]),
     Dict([text |-> Str("Suite 200")]),
     Dict([confidence |-> Num(9)]),
     Dict([text |-> PaddedStr("", 2), confidence |-> Num(9)]),
     Dict([text |-> Str("Lab"), confidence |-> Str("high")])}

LandmarkItemChoices ==
    {Dict([type |-> Str("door"), direction |-> Str("left"),
           distance |-> Str("near"), confidence |-> Num(9)]),
     Dict([type |-> Str("exit_sign"), direction |-> Str("ahead"),
           distance |-> Str("mid"), confidence |-> Num(4),
           additional_info |-> Str("lit")]),
     Dict([type |-> Str("door"), direction |-> Str("left")]),
     Dict([type |-> Str("window"), direction |-> Str("left"),
           distance |-> Str("near"), confidence |-> Num(9)]),
     Dict([type |-> Str("elevator"), direction |-> Str("right"),
           distance |-> Str("far"), confidence |-> Num(-1)]),
     Dict([type |-> Str("staircase"), direction |-> Str("behind"),
           distance |-> Str("very_close"), confidence |-> Null])}

TextValues ==
    {List(items) : items \in SeqsUpTo(TextItemChoices, MaxItems)}
        \cup {Null, Str("none")}
LandmarkValues ==
    {List(items) : items \in SeqsUpTo(LandmarkItemChoices, MaxItems)}
        \cup {Null}

\* a repairable and an already valid core, combined with short lists
MixedCores ==
    {ValidBase, Restrict(ValidBase, {"frame_quality_score"}),
     Put(ValidBase, "scene_confidence", Num(12))}
MixedRaws ==
    {Put(Put(core, "text_detected", List(<<t>>)), "landmarks", List(<<l>>)) :
        core \in MixedCores, t \in TextItemChoices, l \in LandmarkItemChoices}

FrameRaws ==
    SceneCores
      \cup {Put(ValidBase, "text_detected", v) : v \in TextValues}
      \cup {Put(ValidBase, "landmarks", v) : v \in LandmarkValues}
      \cup {Put(ValidBase, "lighting_quality", v) :
               v \in {Str("dim"), Str("neon")}}
      \cup {Put(ValidBase, "processing_notes", Str("MOCK DATA"))}
      \cup {Put(ValidBase, "scene_confidence", Str("0.9"))}
      \cup MixedRaws

\* one raw result of each kind for the batch: valid with entries on both
\* sides of the threshold, repairable, unrepairable, repair raising TypeError
BatchRaws ==
    {Put(ValidBase, "text_detected",
         List(<<Dict([text |-> Str("Room 312"), confidence |-> Num(9)]),
                Dict([text |-> Str("EXIT"), confidence |-> Num(3)])>>)),
     Restrict(ValidBase, {"frame_quality_score"}),
     Put(ValidBase, "scene_type", Str("garage")),
     Put(ValidBase, "scene_confidence", Str("high"))}

\* ------------------------------------------------------------------------
\* Errors: an exception is its type and the fragments of str(e)
\* ------------------------------------------------------------------------
Err(type, msg) == [type |-> type, msg |-> msg]
NoError == Err("None", <<"None">>)
TypeErrorValue == Err("TypeError", <<"'<' not supported">>)
\* what extract_metadata raises: httpx.HTTPError subclasses, ValueError
FrameTransportErrors ==
    {Err("ConnectError", <<"All connection attempts failed">>),
     Err("HTTPStatusError", <<"Server error '500'">>),
     Err("ValueError", <<"Overshoot returned invalid JSON">>)}
BatchTransportErrors ==
    {Err("ConnectError", <<"All connection attempts failed">>)}

\* ------------------------------------------------------------------------
\* State
\* ------------------------------------------------------------------------
VARIABLES
    mode,              \* "frame": one direct process_frame call;
                       \* "batch": one process_frame_batch call
    settings,          \* Settings: max_retries, retry_delay, confidence_threshold
    retry_on_failure,  \* argument of process_frame
    n_frames,          \* len(frames); task i processes frame i
    max_concurrent,    \* argument of process_frame_batch
    service,           \* which raw results the vision service may hand back
    tasks,             \* per task: the locals of process_frame and its position
    semaphore,         \* asyncio.Semaphore: value and FIFO of waiting tasks
    batch_pc,          \* position of process_frame_batch
    processed_results, \* the list process_frame_batch returns
    repair_call,       \* a call of _attempt_fix_validation_errors on its own
    filter_call,       \* a call of _apply_confidence_filtering on its own
    extract_call,      \* a call of OvershootVisionClient.extract_metadata
    batch_request,     \* a request to POST /extract/batch
    observations       \* the observations directory and the last request
                       \* to the observation endpoints

vars ==
    <<mode, settings, retry_on_failure, n_frames, max_concurrent, service,
      tasks, semaphore, batch_pc, processed_results, repair_call, filter_call,
      extract_call, batch_request, observations>>

Frames == 1..n_frames
Terminal == {"returned", "raised"}
HoldsSlot == {"granted", "extracting", "sleeping"}

\* the task before its first step
NewTask ==
    [pc |-> "created", attempt |-> 0, last_error |-> NoError,
     raw_metadata |-> <<>>, calls |-> 0, sleeps |-> <<>>,
     extract_log |-> <<>>, filtered |-> FALSE, outcome |-> <<>>]

ExtractRaws == IF service = "wide" THEN FrameRaws ELSE BatchRaws
ExtractErrors ==
    IF mode = "frame" THEN FrameTransportErrors ELSE BatchTransportErrors

InitFrame ==
    /\ mode = "frame"
    /\ settings \in [max_retries : (-1)..MaxRetriesBound,
                     retry_delay : {1, 2},
                     confidence_threshold : {5, 10}]
    /\ retry_on_failure \in BOOLEAN
    /\ n_frames = 1
    /\ max_concurrent = 0
    /\ service = "wide"
    /\ semaphore = [value |-> 0, waiters |-> <<>>]
    /\ batch_pc = "none"

InitBatch ==
    /\ mode = "batch"
    /\ settings \in [max_retries : 0..MaxBatchRetries,
                     retry_delay : {1},
                     confidence_threshold : {5}]
    /\ retry_on_failure = TRUE
    /\ n_frames \in 0..MaxFrames
    /\ max_concurrent \in 1..MaxConcurrentBound
    /\ service = "narrow"
    /\ semaphore = [value |-> max_concurrent, waiters |-> <<>>]
    /\ batch_pc = "gathering"

\* no call of the function on its own is under way
IdleCall == [pc |-> "idle"]
Calls ==
    <<repair_call, filter_call, extract_call, batch_request, observations>>
Api == <<batch_request, observations>>

Init ==
    /\ InitFrame \/ InitBatch
    /\ tasks = [i \in Frames |-> NewTask]
    /\ processed_results = <<>>
    /\ repair_call = IdleCall
    /\ filter_call = IdleCall
    /\ extract_call = IdleCall
    /\ batch_request = IdleCall
    /\ observations = IdleCall

\* ------------------------------------------------------------------------
\* asyncio.Semaphore as process_with_semaphore uses it
\* ------------------------------------------------------------------------
\* _wake_up_next: hand the slot to the first waiter that has not got one
WakeUpNext(sem, ts) ==
    LET waiting == {n \in 1..Len(sem.waiters) :
                       ts[sem.waiters[n]].pc = "waiting"}
    IN IF waiting = {}
       THEN [sem |-> sem, tasks |-> ts, woke |-> FALSE]
       ELSE LET first == CHOOSE n \in waiting : \A m \in waiting : n <= m
            IN [sem |-> [sem EXCEPT !.value = @ - 1],
                tasks |-> [ts EXCEPT ![sem.waiters[first]].pc = "granted"],
                woke |-> TRUE]

\* variant: the slot is given back but no waiter is woken
ReleaseWithoutWakeUp(sem, ts) ==
    [sem |-> [sem EXCEPT !.value = @ + 1], tasks |-> ts, woke |-> FALSE]

\* release(): value += 1, then _wake_up_next
Release(sem, ts) == WakeUpNext([sem EXCEPT !.value = @ + 1], ts)

\* the tail of acquire() after the wait: while value > 0, _wake_up_next
RECURSIVE WakeWhile(_, _)
WakeWhile(sem, ts) ==
    IF sem.value > 0 /\ WakeUpNext(sem, ts).woke
    THEN WakeWhile(WakeUpNext(sem, ts).sem, WakeUpNext(sem, ts).tasks)
    ELSE [sem |-> sem, tasks |-> ts]

\* variant: only the queue is looked at, not the number of free slots
LockedIgnoresValue(sem) == sem.waiters # <<>>

\* locked(): no free slot, or somebody is queued
Locked(sem) == sem.value = 0 \/ sem.waiters # <<>>

\* ------------------------------------------------------------------------
\* process_frame
\* ------------------------------------------------------------------------
\* the ValueError of line 106
ExhaustedError(t) ==
    Err("ValueError",
        <<"Failed to extract metadata after ", ToString(settings.max_retries),
          " attempts: ">> \o t.last_error.msg)

\* variant: the loop body runs before the limit is tested
LoopTestAfterBody(t) ==
    IF t.attempt = 0 \/ t.attempt < settings.max_retries
    THEN [t EXCEPT !.pc = "extracting", !.calls = @ + 1]
    ELSE [t EXCEPT !.pc = "raised", !.outcome = ExhaustedError(t)]

\* variant: the attempt counter is shared by the calls in progress
LoopTestSharedAttempts(t) ==
    IF \A i \in Frames : tasks[i].attempt < settings.max_retries
    THEN [t EXCEPT !.pc = "extracting", !.calls = @ + 1]
    ELSE [t EXCEPT !.pc = "raised", !.outcome = ExhaustedError(t)]

\* the while test of line 56 for a task with locals t: either the next
\* extract_metadata call starts, or the loop is left and line 106 raises
LoopTest(t) ==
    IF t.attempt < settings.max_retries
    THEN [t EXCEPT !.pc = "extracting", !.calls = @ + 1]
    ELSE [t EXCEPT !.pc = "raised", !.outcome = ExhaustedError(t)]

\* variant: the wait is retry_delay, not retry_delay * attempt
HandlerConstantDelay(t, e) ==
    LET n == t.attempt + 1
    IN IF n < settings.max_retries /\ retry_on_failure
       THEN [t EXCEPT !.pc = "sleeping", !.last_error = e, !.attempt = n,
                      !.sleeps = Append(@, settings.retry_delay)]
       ELSE [t EXCEPT !.pc = "raised", !.last_error = e, !.attempt = n,
                      !.outcome = e]

\* variant: retry_on_failure is not consulted
HandlerAlwaysRetries(t, e) ==
    LET n == t.attempt + 1
    IN IF n < settings.max_retries
       THEN [t EXCEPT !.pc = "sleeping", !.last_error = e, !.attempt = n,
                      !.sleeps = Append(@, settings.retry_delay * n)]
       ELSE [t EXCEPT !.pc = "raised", !.last_error = e, !.attempt = n,
                      !.outcome = e]

\* the except Exception handler of lines 89-103 for the exception e
Handler(t, e) ==
    LET n == t.attempt + 1
    IN IF n < settings.max_retries /\ retry_on_failure
       THEN [t EXCEPT !.pc = "sleeping", !.last_error = e, !.attempt = n,
                      !.sleeps = Append(@, settings.retry_delay * n)]
       ELSE [t EXCEPT !.pc = "raised", !.last_error = e, !.attempt = n,
                      !.outcome = e]

\* variant: a valid result is returned without the quality filters
OnRawResultUnfiltered(t, raw) ==
    LET parsed == validate_and_parse(raw)
        t1 == [t EXCEPT !.raw_metadata = raw]
    IN CASE parsed.status = "ok" ->
              [t1 EXCEPT !.pc = "returned", !.outcome = parsed.metadata]
         [] parsed.status = "ValidationError" ->
              [t1 EXCEPT !.pc = "returned",
                         !.outcome = create_fallback_metadata(
                                        <<"Validation failed: ",
                                          "ValidationError">>)]
         [] OTHER -> Handler(t1, TypeErrorValue)

\* lines 65-87: what process_frame does with the raw result of extract
OnRawResult(t, raw) ==
    LET parsed == validate_and_parse(raw)
        t1 == [t EXCEPT !.raw_metadata = raw]
    IN CASE parsed.status = "ok" ->
              [t1 EXCEPT !.pc = "returned", !.filtered = TRUE,
                         !.outcome = apply_confidence_filtering(
                                        parsed.metadata,
                                        settings.confidence_threshold)]
         [] parsed.status = "ValidationError" ->
              [t1 EXCEPT !.pc = "returned",
                         !.outcome = create_fallback_metadata(
                                        <<"Validation failed: ",
                                          "ValidationError">>)]
         [] OTHER -> Handler(t1, TypeErrorValue)

\* variant: the slot is given back on return only, not when the call raises
StepKeepsSlotOnRaise(i, t, sem, ts) ==
    LET ts1 == [ts EXCEPT ![i] = t]
    IN IF mode = "batch" /\ t.pc = "returned"
       THEN /\ tasks' = Release(sem, ts1).tasks
            /\ semaphore' = Release(sem, ts1).sem
       ELSE /\ tasks' = ts1
            /\ semaphore' = sem

\* task i moves to the locals t; sem and ts are the semaphore and the tasks
\* after whatever the step did to them before. Leaving process_frame inside
\* "async with semaphore" releases the slot.
Step(i, t, sem, ts) ==
    LET ts1 == [ts EXCEPT ![i] = t]
    IN IF mode = "batch" /\ t.pc \in Terminal
       THEN /\ tasks' = Release(sem, ts1).tasks
            /\ semaphore' = Release(sem, ts1).sem
       ELSE /\ tasks' = ts1
            /\ semaphore' = sem

Config ==
    <<mode, settings, retry_on_failure, n_frames, max_concurrent, service>>

\* a direct call of process_frame runs up to its first await
CallProcessFrame(i) ==
    /\ mode = "frame"
    /\ tasks[i].pc = "created"
    /\ Step(i, LoopTest(tasks[i]), semaphore, tasks)
    /\ UNCHANGED <<Config, Calls, batch_pc, processed_results>>

\* process_with_semaphore: a free slot is taken at once and process_frame
\* runs up to its first await
AcquireFree(i) ==
    /\ mode = "batch"
    /\ tasks[i].pc = "created"
    /\ ~Locked(semaphore)
    /\ Step(i, LoopTest(tasks[i]),
            [semaphore EXCEPT !.value = @ - 1], tasks)
    /\ UNCHANGED <<Config, Calls, batch_pc, processed_results>>

\* process_with_semaphore: no free slot, the task queues
AcquireWait(i) ==
    /\ mode = "batch"
    /\ tasks[i].pc = "created"
    /\ Locked(semaphore)
    /\ tasks' = [tasks EXCEPT ![i].pc = "waiting"]
    /\ semaphore' = [semaphore EXCEPT !.waiters = Append(@, i)]
    /\ UNCHANGED <<Config, Calls, batch_pc, processed_results>>

\* a task that was handed a slot resumes: it leaves the queue, passes on any
\* further free slots, and process_frame runs up to its first await
Resume(i) ==
    /\ tasks[i].pc = "granted"
    /\ LET left == [semaphore EXCEPT
                       !.waiters = SelectSeq(@, LAMBDA w : w # i)]
           woken == WakeWhile(left, tasks)
       IN Step(i, LoopTest(woken.tasks[i]), woken.sem, woken.tasks)
    /\ UNCHANGED <<Config, Calls, batch_pc, processed_results>>

\* extract_metadata returns the raw result raw
ExtractReturns(i) ==
    /\ tasks[i].pc = "extracting"
    /\ \E raw \in ExtractRaws :
          Step(i,
               OnRawResult([tasks[i] EXCEPT
                               !.extract_log = Append(@, "returned")], raw),
               semaphore, tasks)
    /\ UNCHANGED <<Config, Calls, batch_pc, processed_results>>

\* extract_metadata raises the transport error e
ExtractRaises(i) ==
    /\ tasks[i].pc = "extracting"
    /\ \E e \in ExtractErrors :
          Step(i,
               Handler([tasks[i] EXCEPT
                           !.extract_log = Append(@, "raised")], e),
               semaphore, tasks)
    /\ UNCHANGED <<Config, Calls, batch_pc, processed_results>>

\* asyncio.sleep of line 100 is over: back to the while test
Wake(i) ==
    /\ tasks[i].pc = "sleeping"
    /\ Step(i, LoopTest(tasks[i]), semaphore, tasks)
    /\ UNCHANGED <<Config, Calls, batch_pc, processed_results>>

\* ------------------------------------------------------------------------
\* process_frame_batch
\* ------------------------------------------------------------------------
\* str(result) of an exception
ErrorText(e) == e.msg

\* variant: an exception is passed through as the frame's result
ConvertKeepsException(t) == t.outcome

\* lines 285-293: exceptions become fallback metadata, values are kept
Convert(t) ==
    IF t.pc = "raised"
    THEN create_fallback_metadata(
            <<"Batch processing error: ">> \o ErrorText(t.outcome))
    ELSE t.outcome

\* variant: frames whose process_frame raised are left out of the results
GatherSkipsFailed ==
    /\ batch_pc = "gathering"
    /\ \A i \in Frames : tasks[i].pc \in Terminal
    /\ processed_results' =
          LET ok == SelectSeq([i \in Frames |-> tasks[i]],
                              LAMBDA t : t.pc = "returned")
          IN [n \in 1..Len(ok) |-> ok[n].outcome]
    /\ batch_pc' = "done"
    /\ UNCHANGED <<mode, settings, retry_on_failure, n_frames,
                   max_concurrent, service, tasks, semaphore, repair_call,
                   filter_call, extract_call, batch_request, observations>>

\* asyncio.gather(*tasks, return_exceptions=True) is complete: the results
\* come in the order of the tasks
Gather ==
    /\ batch_pc = "gathering"
    /\ \A i \in Frames : tasks[i].pc \in Terminal
    /\ processed_results' = [i \in Frames |-> Convert(tasks[i])]
    /\ batch_pc' = "done"
    /\ UNCHANGED <<Config, Calls, tasks, semaphore>>

Next ==
    \/ \E i \in Frames : CallProcessFrame(i)
    \/ \E i \in Frames : AcquireFree(i)
    \/ \E i \in Frames : AcquireWait(i)
    \/ \E i \in Frames : Resume(i)
    \/ \E i \in Frames : ExtractReturns(i)
    \/ \E i \in Frames : ExtractRaises(i)
    \/ \E i \in Frames : Wake(i)
    \/ Gather

Spec == Init /\ [][Next]_vars

\* the same calls against the narrow service, for the properties of
\* progress: a direct call, and batches of up to MaxFairFrames frames
InitFair ==
    /\ \/ /\ mode = "frame"
          /\ settings \in [max_retries : (-1)..MaxRetriesBound,
                           retry_delay : {1},
                           confidence_threshold : {5}]
          /\ retry_on_failure \in BOOLEAN
          /\ n_frames = 1
          /\ max_concurrent = 0
          /\ semaphore = [value |-> 0, waiters |-> <<>>]
          /\ batch_pc = "none"
       \/ /\ mode = "batch"
          /\ settings \in [max_retries : 0..MaxBatchRetries,
                           retry_delay : {1},
                           confidence_threshold : {5}]
          /\ retry_on_failure = TRUE
          /\ n_frames \in 0..MaxFairFrames
          /\ max_concurrent \in 1..MaxConcurrentBound
          /\ semaphore = [value |-> max_concurrent, waiters |-> <<>>]
          /\ batch_pc = "gathering"
    /\ service = "narrow"
    /\ tasks = [i \in Frames |-> NewTask]
    /\ processed_results = <<>>
    /\ repair_call = IdleCall
    /\ filter_call = IdleCall
    /\ extract_call = IdleCall
    /\ batch_request = IdleCall
    /\ observations = IdleCall

\* the steps the event loop takes by itself: starting a task, handing on a
\* slot, ending a sleep, completing the gather
Schedule ==
    \/ \E i \in Frames : CallProcessFrame(i)
    \/ \E i \in Frames : AcquireFree(i)
    \/ \E i \in Frames : AcquireWait(i)
    \/ \E i \in Frames : Resume(i)
    \/ \E i \in Frames : Wake(i)
    \/ Gather

\* every extract_metadata call returns or raises in the end
ExtractCallsEnd ==
    \A i \in 1..MaxFairFrames :
       []<>(i \in Frames => tasks[i].pc # "extracting")

\* the event loop runs every task that is ready, and every extract call
\* comes to an end
FairSpec ==
    InitFair /\ [][Next]_vars /\ WF_vars(Schedule) /\ ExtractCallsEnd

TypeOK ==
    /\ mode \in {"frame", "batch"}
    /\ \A i \in Frames :
          tasks[i].pc \in {"created", "waiting", "granted", "extracting",
                           "sleeping", "returned", "raised"}

\* ------------------------------------------------------------------------
\* _attempt_fix_validation_errors called on its own
\* ------------------------------------------------------------------------
\* the orchestrator is not running
Idle(m) ==
    /\ mode = m
    /\ settings = [max_retries |-> 3, retry_delay |-> 1,
                   confidence_threshold |-> 5]
    /\ retry_on_failure = TRUE
    /\ n_frames = 0
    /\ max_concurrent = 0
    /\ service = "narrow"
    /\ tasks = <<>>
    /\ semaphore = [value |-> 0, waiters |-> <<>>]
    /\ batch_pc = "none"
    /\ processed_results = <<>>

\* raw maps for repair: those of process_frame, and lists with entries that
\* are not objects, entries whose confidence is a numeric string, a string
\* where a list is expected, and damaged cores with damaged lists
RepairRaws ==
    FrameRaws
      \cup {Put(ValidBase, "text_detected",
                List(<<Str("EXIT"),
                       Dict([text |-> Str("Room 312"),
                             confidence |-> Num(9)])>>)),
            Put(ValidBase, "landmarks",
                List(<<Null,
                       Dict([type |-> Str("door"), direction |-> Str("left"),
                             distance |-> Str("near")])>>)),
            Put(ValidBase, "text_detected",
                List(<<Dict([text |-> Str("Lab"),
                             confidence |-> Str("0.4")])>>)),
            Put(ValidBase, "landmarks", Str("none")),
            Put(ValidBase, "frame_quality_score", Str("0.9"))}
      \cup {Put(Put(core, "text_detected", List(<<t>>)),
                "landmarks", List(<<l>>)) :
               core \in {Restrict(ValidBase, {"scene_confidence"}),
                         Put(ValidBase, "frame_quality_score", Num(-2))},
               t \in TextItemChoices, l \in LandmarkItemChoices}

\* what the call hands back: the fixed map, or the TypeError
RepairResult(raw_data) ==
    IF attempt_fix_validation_errors_raises(raw_data)
    THEN [status |-> "TypeError"]
    ELSE [status |-> "returned",
          fixed |-> attempt_fix_validation_errors(raw_data)]

\* raw_data.copy() is shallow: the entries of the caller's lists are the
\* objects the loops assign "confidence" in, up to the entry that raises
TextStop(v) ==
    LET bad == {n \in 1..Len(v.val) :
                   TextKept(v.val[n]) /\ FixConfidenceRaises(v.val[n])}
    IN IF bad = {} THEN Len(v.val) + 1
       ELSE CHOOSE n \in bad : \A m \in bad : n <= m
TextsInPlace(v) ==
    IF v.ty # "list" THEN v
    ELSE List([n \in 1..Len(v.val) |->
                 IF n < TextStop(v) /\ TextKept(v.val[n])
                 THEN FixConfidence(v.val[n]) ELSE v.val[n]])
LandmarkStop(v) ==
    LET bad == {n \in 1..Len(v.val) :
                   LandmarkKept(v.val[n]) /\ FixConfidenceRaises(v.val[n])}
    IN IF bad = {} THEN Len(v.val) + 1
       ELSE CHOOSE n \in bad : \A m \in bad : n <= m
LandmarksInPlace(v) ==
    IF v.ty # "list" THEN v
    ELSE List([n \in 1..Len(v.val) |->
                 IF n < LandmarkStop(v) /\ LandmarkKept(v.val[n])
                 THEN FixConfidence(v.val[n]) ELSE v.val[n]])

\* the caller's map after the call
CallerMapAfter(raw_data) ==
    LET f == EnsureRequired(raw_data)
        r1 == IF Has(raw_data, "text_detected")
              THEN Put(raw_data, "text_detected",
                       TextsInPlace(raw_data["text_detected"]))
              ELSE raw_data
    IN IF ClampRaises(f["scene_confidence"])
             \/ ClampRaises(f["frame_quality_score"])
       THEN raw_data
       ELSE IF (Has(raw_data, "text_detected")
                  /\ FixTextsRaises(raw_data["text_detected"]))
                 \/ ~Has(raw_data, "landmarks")
       THEN r1
       ELSE Put(r1, "landmarks", LandmarksInPlace(raw_data["landmarks"]))

NoResult == [status |-> "none"]

InitRepair ==
    /\ Idle("repair")
    /\ \E raw \in RepairRaws :
          repair_call = [pc |-> "ready", raw_before |-> raw, raw_data |-> raw,
                         result |-> NoResult, again |-> NoResult]
    /\ filter_call = IdleCall
    /\ extract_call = IdleCall
    /\ batch_request = IdleCall
    /\ observations = IdleCall

Orchestrator ==
    <<Config, tasks, semaphore, batch_pc, processed_results>>

\* fixed = _attempt_fix_validation_errors(raw_data)
CallRepair ==
    /\ repair_call.pc = "ready"
    /\ repair_call' =
          [repair_call EXCEPT
             !.pc = "done",
             !.result = RepairResult(repair_call.raw_data),
             !.raw_data = CallerMapAfter(repair_call.raw_data)]
    /\ UNCHANGED <<Orchestrator, Api, filter_call, extract_call>>

\* _attempt_fix_validation_errors(fixed): the entries of fixed are those of
\* the caller's lists
CallRepairAgain ==
    /\ repair_call.pc = "done"
    /\ repair_call.result.status = "returned"
    /\ repair_call' =
          [repair_call EXCEPT
             !.pc = "done_again",
             !.again = RepairResult(repair_call.result.fixed),
             !.raw_data = CallerMapAfter(repair_call.raw_data)]
    /\ UNCHANGED <<Orchestrator, Api, filter_call, extract_call>>

NextRepair == CallRepair \/ CallRepairAgain

SpecRepair == InitRepair /\ [][NextRepair]_vars

\* ------------------------------------------------------------------------
\* _apply_confidence_filtering called on its own
\* ------------------------------------------------------------------------
TextEntries ==
    {[text |-> "Room 312", confidence |-> 9, includes_arrow |-> FALSE],
     [text |-> "EXIT", confidence |-> 3, includes_arrow |-> FALSE],
     [text |-> "STAIRS", confidence |-> 5, includes_arrow |-> TRUE]}
LandmarkEntries ==
    {[type |-> "door", direction |-> "left", distance |-> "near",
      confidence |-> 9, additional_info |-> <<>>],
     [type |-> "exit_sign", direction |-> "ahead", distance |-> "mid",
      confidence |-> 4, additional_info |-> <<"lit">>],
     [type |-> "elevator", direction |-> "right", distance |-> "far",
      confidence |-> 5, additional_info |-> <<>>]}
MetadataBases ==
    {IndoorMetadata(ValidBase),
     [IndoorMetadata(ValidBase) EXCEPT
        !.lighting_quality = "dim",
        !.motion_blur_detected = TRUE,
        !.relative_position_cues = <<"Door 312 is 5 feet to the left">>,
        !.processing_notes = <<"MOCK DATA">>]}
FilterMetadatas ==
    {[base EXCEPT !.text_detected = texts, !.landmarks = marks] :
        base \in MetadataBases,
        texts \in SeqsUpTo(TextEntries, MaxItems),
        marks \in SeqsUpTo(LandmarkEntries, MaxItems)}
Thresholds == {0, 5, 10}

InitFilter ==
    /\ Idle("filter")
    /\ repair_call = IdleCall
    /\ extract_call = IdleCall
    /\ batch_request = IdleCall
    /\ observations = IdleCall
    /\ \E metadata \in FilterMetadatas, threshold \in Thresholds :
          filter_call = [pc |-> "ready", metadata_before |-> metadata,
                         metadata |-> metadata, threshold |-> threshold,
                         argument |-> 1, returned |-> 0,
                         filtered |-> <<>>, again |-> <<>>]

\* filtered = _apply_confidence_filtering(metadata), the argument being the
\* only object alive: afterwards metadata is what the argument's object
\* holds and filtered what the returned object holds
CallFilter ==
    /\ filter_call.pc = "ready"
    /\ LET after == apply_confidence_filtering_to(<<filter_call.metadata>>,
                                                  filter_call.argument,
                                                  filter_call.threshold)
       IN filter_call' =
             [filter_call EXCEPT
                !.pc = "done",
                !.metadata = after.objects[filter_call.argument],
                !.returned = after.ref,
                !.filtered = after.objects[after.ref]]
    /\ UNCHANGED <<Orchestrator, Api, repair_call, extract_call>>

\* _apply_confidence_filtering(filtered)
CallFilterAgain ==
    /\ filter_call.pc = "done"
    /\ filter_call' =
          [filter_call EXCEPT
             !.pc = "done_again",
             !.again = apply_confidence_filtering(filter_call.filtered,
                                                  filter_call.threshold)]
    /\ UNCHANGED <<Orchestrator, Api, repair_call, extract_call>>

NextFilter == CallFilter \/ CallFilterAgain

SpecFilter == InitFilter /\ [][NextFilter]_vars

\* ------------------------------------------------------------------------
\* overshoot_client.py: extract_metadata called on its own
\* ------------------------------------------------------------------------
\* endpoints_to_try, as suffixes of base_url
Endpoints == <<"/streams", "/analyze", "/frames", "">>

\* the maps a response body may spell: a metadata map, an error report
ServiceMaps == {ValidBase, [detail |-> Str("Not Found")]}

\* response bodies: text that is not JSON, a JSON array, an object whose
\* "content" is a string that is not JSON, and for each map the map itself,
\* the map under "content", and the map as a JSON string under "response"
Bodies ==
    {[text |-> "not json"], [text |-> "array"],
     [text |-> "content: not json"]}
      \cup [text : {"object", "content: object", "response: string"},
            map : ServiceMaps]

\* what one client.post may do: answer with a status and a body, or fail
Answers ==
    [kind : {"response"}, status : {200, 404, 500}, body : Bodies]
      \cup [kind : {"error"},
            error : {Err("ConnectError", <<"All connection attempts failed">>),
                     Err("ReadTimeout", <<"The read operation timed out">>)}]

\* response.is_success
IsSuccess(status) == status >= 200 /\ status <= 299

\* the HTTPStatusError of raise_for_status
StatusError(status) ==
    Err("HTTPStatusError", <<"status ", ToString(status)>>)

AnswerClass(answer) ==
    IF answer.kind = "error" THEN "error"
    ELSE IF IsSuccess(answer.status) THEN "2xx"
    ELSE ToString(answer.status)

\* lines 264-279: response.json(), the choice of "content", "response" or
\* the object itself, json.loads of a string, and .get on the outcome
ParseBody(body) ==
    CASE body.text \in {"not json", "content: not json"} ->
            [status |-> "JSONDecodeError"]
      [] body.text = "array" -> [status |-> "AttributeError"]
      [] OTHER -> [status |-> "ok", map |-> body.map]

NoResponse == [status |-> 0]

\* the call leaves by raising e
ExtractRaise(c, e) == [c EXCEPT !.pc = "raised", !.outcome = e]

\* lines 260-291 once the loop is left
AfterLoop(c) ==
    IF c.response = NoResponse
    THEN ExtractRaise(c, Err("HTTPError",
                             <<"All endpoints failed. Last error: ">>
                                \o c.last_error.msg))
    ELSE LET parsed == ParseBody(c.response.body)
         IN CASE parsed.status = "ok" ->
                   [c EXCEPT !.pc = "returned", !.outcome = parsed.map]
              [] parsed.status = "JSONDecodeError" ->
                   ExtractRaise(c, Err("ValueError",
                                       <<"Overshoot returned invalid JSON: ",
                                         "JSONDecodeError">>))
              [] OTHER ->
                   ExtractRaise(c, Err("AttributeError",
                                       <<"object has no attribute 'get'">>))

\* the loop goes on with the next endpoint, or is left after the last one
NextEndpoint(c) ==
    IF c.endpoint < Len(Endpoints)
    THEN [c EXCEPT !.endpoint = @ + 1]
    ELSE AfterLoop(c)

\* variant: any exception of the post that is not a status error is raised
\* at once
OnAnswerRaisesAnyException(c, answer) ==
    LET c0 == [c EXCEPT !.requests = Append(@, Endpoints[c.endpoint]),
                        !.log = Append(@, AnswerClass(answer))]
    IN IF answer.kind = "response"
       THEN LET c1 == [c0 EXCEPT !.response = [status |-> answer.status,
                                               body |-> answer.body]]
            IN IF IsSuccess(answer.status) THEN AfterLoop(c1)
               ELSE LET c2 == [c1 EXCEPT
                                  !.last_error = StatusError(answer.status)]
                    IN IF answer.status = 404 THEN NextEndpoint(c2)
                       ELSE ExtractRaise(c2, c2.last_error)
       ELSE LET c1 == [c0 EXCEPT !.last_error = answer.error]
            IN ExtractRaise(c1, answer.error)

\* one pass of the loop body of lines 236-258 for what the post did
OnAnswer(c, answer) ==
    LET c0 == [c EXCEPT !.requests = Append(@, Endpoints[c.endpoint]),
                        !.log = Append(@, AnswerClass(answer))]
    IN IF answer.kind = "response"
       THEN LET c1 == [c0 EXCEPT !.response = [status |-> answer.status,
                                               body |-> answer.body]]
            IN IF IsSuccess(answer.status) THEN AfterLoop(c1)
               ELSE LET c2 == [c1 EXCEPT
                                  !.last_error = StatusError(answer.status)]
                    IN IF answer.status = 404 THEN NextEndpoint(c2)
                       ELSE ExtractRaise(c2, c2.last_error)
       ELSE LET c1 == [c0 EXCEPT !.last_error = answer.error]
            IN IF c.endpoint = Len(Endpoints)
               THEN ExtractRaise(c1, answer.error)
               ELSE [c1 EXCEPT !.endpoint = @ + 1]

\* extract_metadata has compressed and encoded the image (neither can fail)
\* and is about to post to the first endpoint
InitExtract ==
    /\ Idle("extract")
    /\ repair_call = IdleCall
    /\ filter_call = IdleCall
    /\ batch_request = IdleCall
    /\ observations = IdleCall
    /\ extract_call = [pc |-> "posting", endpoint |-> 1,
                       response |-> NoResponse, last_error |-> NoError,
                       requests |-> <<>>, log |-> <<>>,
                       outcome |-> NoResult]

\* await self.client.post(try_endpoint, json=payload) completes
Post ==
    /\ extract_call.pc = "posting"
    /\ \E answer \in Answers : extract_call' = OnAnswer(extract_call, answer)
    /\ UNCHANGED <<Orchestrator, Api, repair_call, filter_call>>

NextExtract == Post

SpecExtract == InitExtract /\ [][NextExtract]_vars

\* ------------------------------------------------------------------------
\* api.py: POST /extract/batch
\* ------------------------------------------------------------------------
\* the largest upload the handler accepts
BatchLimit == 50

\* UploadFile.content_type as the pair of its type prefix and its subtype;
\* <<>> is a part that came without one
ContentTypes == {<<"image/", "jpeg">>, <<"text/", "plain">>, <<>>}

\* file.content_type and file.content_type.startswith("image/")
IsImage(content_type) ==
    content_type # <<>> /\ content_type[1] = "image/"

\* uploads of up to MaxUpload files; file k carries the bytes k, the first
\* MaxMixed files take any content type and the others are JPEG images
Uploads ==
    UNION {{[k \in 1..n |->
               [data |-> k,
                content_type |-> IF k <= MaxMixed THEN types[k]
                                 ELSE <<"image/", "jpeg">>]] :
              types \in [1..Min2(n, MaxMixed) -> ContentTypes]} :
           n \in 0..MaxUpload}

\* the loop of lines 239-244: the bytes of the files that are images
FramesData(files) ==
    LET images == SelectSeq(files, LAMBDA file : IsImage(file.content_type))
    IN [k \in 1..Len(images) |-> images[k].data]

\* process_frame_batch(frames): one metadata per frame, in the order of the
\* frames, each extracted from (or a fallback for) its frame
process_frame_batch(frames) ==
    [i \in 1..Len(frames) |-> [frame |-> frames[i]]]

\* the handler with the extraction service set up by lifespan
extract_metadata_batch(files) ==
    IF Len(files) > BatchLimit
    THEN [status |-> 400,
          detail |-> "Maximum 50 frames per batch request",
          frames_data |-> <<>>]
    ELSE [status |-> 200,
          body |-> process_frame_batch(FramesData(files)),
          frames_data |-> FramesData(files)]

InitBatchApi ==
    /\ Idle("api")
    /\ repair_call = IdleCall
    /\ filter_call = IdleCall
    /\ extract_call = IdleCall
    /\ observations = IdleCall
    /\ \E files \in Uploads :
          batch_request = [pc |-> "received", files |-> files,
                           response |-> NoResult]

\* the request is handled
PostExtractBatch ==
    /\ batch_request.pc = "received"
    /\ batch_request' =
          [batch_request EXCEPT
             !.pc = "responded",
             !.response = extract_metadata_batch(batch_request.files)]
    /\ UNCHANGED <<Orchestrator, repair_call, filter_call, extract_call,
                   observations>>

NextBatchApi == PostExtractBatch

SpecBatchApi == InitBatchApi /\ [][NextBatchApi]_vars

\* ------------------------------------------------------------------------
\* api.py: the observation endpoints
\* ------------------------------------------------------------------------
\* device identifiers that are usable as part of a file name
DeviceIds == {"phone-a", "phone-b"}

\* what a device reports: GPS values in whole units, metadata as a map
Coordinates == {-80, 5, 12, 40}
Readings ==
    {[timestamp |-> "2026-01-01T10:00:00Z", gps_latitude |-> 40,
      gps_longitude |-> -80, gps_accuracy |-> 5,
      metadata |-> [scene_type |-> "hallway"]],
     [timestamp |-> "2026-01-01T10:00:05Z", gps_latitude |-> 40,
      gps_longitude |-> -80, gps_accuracy |-> 12,
      metadata |-> [scene_type |-> "lobby"]]}

\* ObservationData
Observation(device_id, reading) ==
    [device_id |-> device_id, timestamp |-> reading.timestamp,
     gps_latitude |-> reading.gps_latitude,
     gps_longitude |-> reading.gps_longitude,
     gps_accuracy |-> reading.gps_accuracy, metadata |-> reading.metadata]

\* variant: one file for all devices
DeviceFileShared(device_id) == <<"observations", ".json">>

\* the name under OBSERVATIONS_DIR: f"observations_{device_id}.json"
DeviceFile(device_id) == <<"observations_", device_id, ".json">>

\* the directory is a map from the names of the files in it to their text
Exists(files, name) == name \in DOMAIN files
Write(files, name, text) ==
    [n \in DOMAIN files \cup {name} |-> IF n = name THEN text ELSE files[n]]
Unlink(files, name) == [n \in DOMAIN files \ {name} |-> files[n]]

\* json.dump and json.load of a list of observation maps: numbers are
\* written as their digits and read back from them
JsonNumber(n) == ToString(n)
ParseNumber(digits) == CHOOSE n \in Coordinates : ToString(n) = digits
JsonDump(observation_list) ==
    [k \in 1..Len(observation_list) |->
       [observation_list[k] EXCEPT
          !.gps_latitude = JsonNumber(@),
          !.gps_longitude = JsonNumber(@),
          !.gps_accuracy = JsonNumber(@)]]
JsonLoad(text) ==
    [k \in 1..Len(text) |->
       [text[k] EXCEPT
          !.gps_latitude = ParseNumber(@),
          !.gps_longitude = ParseNumber(@),
          !.gps_accuracy = ParseNumber(@)]]

\* variant: the file is not read before it is written
save_observation_without_reading(files, observation) ==
    LET device_file == DeviceFile(observation.device_id)
        saved == <<observation>>
    IN [files |-> Write(files, device_file, JsonDump(saved)),
        response |-> [status |-> "success",
                      device_id |-> observation.device_id,
                      total_observations |-> Len(saved)]]

\* POST /save_observation: the directory afterwards and the response
save_observation(files, observation) ==
    LET device_file == DeviceFile(observation.device_id)
        existing == IF Exists(files, device_file)
                    THEN JsonLoad(files[device_file])
                    ELSE <<>>
        saved == Append(existing, observation)
    IN [files |-> Write(files, device_file, JsonDump(saved)),
        response |-> [status |-> "success",
                      device_id |-> observation.device_id,
                      total_observations |-> Len(saved)]]

\* POST /clear_observations/{device_id}
clear_observations(files, device_id) ==
    LET device_file == DeviceFile(device_id)
    IN [files |-> IF Exists(files, device_file)
                  THEN Unlink(files, device_file)
                  ELSE files,
        response |-> [status |-> "success",
                      message |-> <<"Observations cleared for device ",
                                    device_id>>]]

\* GET /observations/{device_id}: the response
get_observations(files, device_id) ==
    LET device_file == DeviceFile(device_id)
    IN IF ~Exists(files, device_file)
       THEN [device_id |-> device_id, observations |-> <<>>, count |-> 0]
       ELSE LET loaded == JsonLoad(files[device_file])
            IN [device_id |-> device_id, observations |-> loaded,
                count |-> Len(loaded)]

\* the service has started on an empty observations directory; saved and
\* cleared record, per device, the observations saved since the last clear
\* and whether there was a clear
InitObservations ==
    /\ Idle("api")
    /\ repair_call = IdleCall
    /\ filter_call = IdleCall
    /\ extract_call = IdleCall
    /\ batch_request = IdleCall
    /\ observations = [pc |-> "serving", files |-> <<>>,
                       saved |-> [d \in DeviceIds |-> <<>>],
                       cleared |-> [d \in DeviceIds |-> FALSE],
                       last |-> [op |-> "none"]]

\* the handlers have no await: each request is served in one step
SaveObservation ==
    /\ observations.pc = "serving"
    /\ \E d \in DeviceIds, reading \in Readings :
          /\ Len(observations.saved[d]) < MaxStored
          /\ LET observation == Observation(d, reading)
                 served == save_observation(observations.files, observation)
             IN observations' =
                   [observations EXCEPT
                      !.files = served.files,
                      !.saved[d] = Append(@, observation),
                      !.last = [op |-> "save", device_id |-> d,
                                response |-> served.response]]
    /\ UNCHANGED <<Orchestrator, repair_call, filter_call, extract_call,
                   batch_request>>

ClearObservations ==
    /\ observations.pc = "serving"
    /\ \E d \in DeviceIds :
          LET served == clear_observations(observations.files, d)
          IN observations' =
                [observations EXCEPT
                   !.files = served.files,
                   !.saved[d] = <<>>,
                   !.cleared[d] = TRUE,
                   !.last = [op |-> "clear", device_id |-> d,
                             response |-> served.response]]
    /\ UNCHANGED <<Orchestrator, repair_call, filter_call, extract_call,
                   batch_request>>

GetObservations ==
    /\ observations.pc = "serving"
    /\ \E d \in DeviceIds :
          observations' =
             [observations EXCEPT
                !.last = [op |-> "get", device_id |-> d,
                          response |->
                             get_observations(observations.files, d)]]
    /\ UNCHANGED <<Orchestrator, repair_call, filter_call, extract_call,
                   batch_request>>

NextObservations == SaveObservation \/ ClearObservations \/ GetObservations

SpecObservations == InitObservations /\ [][NextObservations]_vars

\* ------------------------------------------------------------------------
\* Properties
\* ------------------------------------------------------------------------
Last(seq) == seq[Len(seq)]
Count(seq, x) == Cardinality({n \in 1..Len(seq) : seq[n] = x})
AllRaised(t) == \A n \in 1..Len(t.extract_log) : t.extract_log[n] = "raised"
\* the last extract call of the task returned a raw result
LastReturned(t) ==
    t.extract_log # <<>> /\ Last(t.extract_log) = "returned"
\* seq ends with the fragments tail
EndsWith(seq, tail) ==
    Len(seq) >= Len(tail)
    /\ SubSeq(seq, Len(seq) - Len(tail) + 1, Len(seq)) = tail
InFlight == {i \in Frames : tasks[i].pc = "extracting"}

\* C1: process_frame_batch on N frames returns exactly N results, and
\* result i is the outcome of frame i: the value its process_frame returned,
\* or a result whose notes carry the error its process_frame raised.
C1_BatchOneResultPerFrameInOrder ==
    batch_pc = "done" =>
       /\ DOMAIN processed_results = 1..n_frames
       /\ Len(processed_results) = n_frames
       /\ \A i \in Frames :
             /\ tasks[i].pc = "returned"
                   => processed_results[i] = tasks[i].outcome
             /\ tasks[i].pc = "raised"
                   => EndsWith(processed_results[i].processing_notes,
                               tasks[i].outcome.msg)

\* every extract call of a batch of at least two frames threw, each frame
\* used up its retries, and the batch has returned
C1_Witness ==
    /\ batch_pc = "done"
    /\ n_frames >= 2
    /\ settings.max_retries >= 2
    /\ \A i \in Frames : tasks[i].pc = "raised" /\ AllRaised(tasks[i])
    /\ Len(processed_results) = n_frames

\* C2: during process_frame_batch at most max_concurrent extract calls have
\* started and not yet finished.
C2_InFlightBounded ==
    mode = "batch" => Cardinality(InFlight) <= max_concurrent

\* more frames than slots: every slot is busy with an extract call while
\* another frame queues, and one frame is already on a retry
C2_Witness ==
    /\ mode = "batch"
    /\ n_frames > max_concurrent
    /\ Cardinality(InFlight) = max_concurrent
    /\ \E i \in Frames : tasks[i].pc = "waiting"
    /\ \E i \in InFlight : tasks[i].attempt >= 1

\* C3: when process_frame of frame i ended in an error, result i is the
\* fallback metadata with the error in its notes; when it returned a value,
\* result i is exactly that value. The batch has no failing exit.
FallbackFor(e) ==
    [scene_type |-> "unknown", scene_confidence |-> 1,
     text_detected |-> <<>>, landmarks |-> <<>>,
     relative_position_cues |-> <<>>, lighting_quality |-> "poor",
     motion_blur_detected |-> TRUE, frame_quality_score |-> 2,
     processing_notes |->
        <<"Extraction failed: ", "Batch processing error: ">> \o e.msg]

C3_BatchFailuresBecomeFallback ==
    /\ batch_pc \in {"none", "gathering", "done"}
    /\ batch_pc = "done" =>
          \A i \in Frames :
             processed_results[i] =
                IF tasks[i].pc = "raised" THEN FallbackFor(tasks[i].outcome)
                ELSE tasks[i].outcome

\* a finished batch in which one frame raised and another returned a value
\* that is not a fallback
C3_Witness ==
    /\ batch_pc = "done"
    /\ \E i, j \in Frames :
          /\ tasks[i].pc = "raised"
          /\ tasks[j].pc = "returned"
          /\ tasks[j].outcome.scene_type = "hallway"
          /\ processed_results[i].scene_type = "unknown"
          /\ processed_results[j] = tasks[j].outcome

\* C4: when every extract call fails with a transport error, with
\* retry_on_failure and max_retries = n >= 1, process_frame waits
\* retry_delay * k after the k-th failure for k = 1..n-1 and ends, after
\* exactly n extract calls and no wait after the n-th failure, by raising.
C4_LinearBackoffThenFail ==
    \A i \in Frames :
       (retry_on_failure /\ settings.max_retries >= 1 /\ AllRaised(tasks[i]))
          => /\ \A k \in 1..Len(tasks[i].sleeps) :
                   tasks[i].sleeps[k] = settings.retry_delay * k
             /\ tasks[i].pc # "returned"
             /\ tasks[i].pc = "raised" =>
                   /\ tasks[i].calls = settings.max_retries
                   /\ Len(tasks[i].extract_log) = settings.max_retries
                   /\ Len(tasks[i].sleeps) = settings.max_retries - 1

\* three failed attempts with retry_delay 2: the waits were 2 and 4
C4_Witness ==
    /\ mode = "frame"
    /\ retry_on_failure
    /\ settings.max_retries = 3
    /\ settings.retry_delay = 2
    /\ tasks[1].pc = "raised"
    /\ AllRaised(tasks[1])
    /\ tasks[1].calls = 3
    /\ tasks[1].sleeps = <<2, 4>>

\* C5: every error process_frame raises is the terminal extraction failure
\* that carries the number of attempts and the last cause (the ValueError of
\* line 106); the raw transport exception never reaches the caller.
ExtractionFailed(e) ==
    /\ e.type = "ValueError"
    /\ Len(e.msg) >= 3
    /\ e.msg[1] = "Failed to extract metadata after "

C5_OnlyExtractionFailedCrosses ==
    \A i \in Frames :
       tasks[i].pc = "raised" => ExtractionFailed(tasks[i].outcome)

\* a raw result that cannot be repaired into a valid object: it does not
\* validate, and repair raises or yields a map that does not validate either
Unrepairable(raw) ==
    /\ ~IndoorMetadataValid(raw)
    /\ \/ attempt_fix_validation_errors_raises(raw)
       \/ ~IndoorMetadataValid(attempt_fix_validation_errors(raw))

\* C6: when extract returns a raw result that does not validate, process_frame
\* returns on that same attempt: no further extract call, no backoff wait, no
\* increment of the attempt counter.
C6_SchemaFailureNeverRetried ==
    \A i \in Frames :
       \A n \in 1..Len(tasks[i].extract_log) :
          tasks[i].extract_log[n] = "returned" =>
             /\ n = Len(tasks[i].extract_log)
             /\ tasks[i].pc = "returned"
             /\ tasks[i].attempt = Count(tasks[i].extract_log, "raised")
             /\ Len(tasks[i].sleeps) <= Count(tasks[i].extract_log, "raised")

\* C7: for every raw result that cannot be repaired into a valid object,
\* process_frame returns the fallback metadata and surfaces no error.
C7_UnrepairableBecomesFallback ==
    \A i \in Frames :
       (LastReturned(tasks[i]) /\ Unrepairable(tasks[i].raw_metadata))
          => /\ tasks[i].pc = "returned"
             /\ tasks[i].outcome =
                   [scene_type |-> "unknown", scene_confidence |-> 1,
                    text_detected |-> <<>>, landmarks |-> <<>>,
                    relative_position_cues |-> <<>>,
                    lighting_quality |-> "poor",
                    motion_blur_detected |-> TRUE,
                    frame_quality_score |-> 2,
                    processing_notes |-> tasks[i].outcome.processing_notes]
             /\ tasks[i].outcome.processing_notes # <<>>

\* C8: every IndoorMetadata process_frame returns is schema-valid and keeps
\* only entries whose confidence is at least the configured threshold.
InRange(c) == c >= 0 /\ c <= 10

SchemaValid(m) ==
    /\ m.scene_type \in SceneTypes
    /\ m.lighting_quality \in LightingQualities
    /\ InRange(m.scene_confidence)
    /\ InRange(m.frame_quality_score)
    /\ m.motion_blur_detected \in BOOLEAN
    /\ \A n \in 1..Len(m.text_detected) :
          /\ m.text_detected[n].text # ""
          /\ InRange(m.text_detected[n].confidence)
          /\ m.text_detected[n].confidence >= settings.confidence_threshold
    /\ \A n \in 1..Len(m.landmarks) :
          /\ m.landmarks[n].type \in LandmarkTypes
          /\ m.landmarks[n].direction \in Directions
          /\ m.landmarks[n].distance \in Distances
          /\ InRange(m.landmarks[n].confidence)
          /\ m.landmarks[n].confidence >= settings.confidence_threshold

C8_ReturnedMetadataValid ==
    \A i \in Frames :
       tasks[i].pc = "returned" => SchemaValid(tasks[i].outcome)

\* a repaired result that kept a text and a landmark, from a raw result that
\* also carried an entry below the threshold or outside the schema
C8_Witness ==
    \E i \in Frames :
       /\ tasks[i].pc = "returned"
       /\ ~IndoorMetadataValid(tasks[i].raw_metadata)
       /\ Len(tasks[i].outcome.text_detected) = 1
       /\ Len(tasks[i].outcome.landmarks) = 1
       /\ tasks[i].outcome.scene_type = "hallway"

\* C9: if extract fails with a transport error on the first k attempts,
\* k < max_retries, and then returns a valid raw result, process_frame with
\* retry_on_failure returns the confidence-filtered metadata of that result
\* after exactly k + 1 extract calls.
C9_SuccessAfterTransientFailures ==
    \A i \in Frames :
       (/\ retry_on_failure
        /\ LastReturned(tasks[i])
        /\ Count(tasks[i].extract_log, "raised") = Len(tasks[i].extract_log) - 1
        /\ IndoorMetadataValid(tasks[i].raw_metadata))
          => /\ tasks[i].pc = "returned"
             /\ tasks[i].calls = Count(tasks[i].extract_log, "raised") + 1
             /\ Count(tasks[i].extract_log, "raised") < settings.max_retries
             /\ tasks[i].outcome =
                   apply_confidence_filtering(
                      IndoorMetadata(tasks[i].raw_metadata),
                      settings.confidence_threshold)

\* two transport failures, then a valid result with an entry below the
\* threshold: returned after the third call, without that entry
C9_Witness ==
    /\ mode = "frame"
    /\ retry_on_failure
    /\ tasks[1].pc = "returned"
    /\ tasks[1].extract_log = <<"raised", "raised", "returned">>
    /\ tasks[1].calls = 3
    /\ IndoorMetadataValid(tasks[1].raw_metadata)
    /\ Has(tasks[1].raw_metadata, "text_detected")
    /\ Len(tasks[1].raw_metadata["text_detected"].val) = 2
    /\ Len(tasks[1].outcome.text_detected) = 1

\* C10: with retry_on_failure false and max_retries >= 1, a transport failure
\* of the first extract call makes process_frame fail after exactly one
\* extract call and without any backoff wait.
C10_NoRetryWhenDisabled ==
    \A i \in Frames :
       (/\ ~retry_on_failure
        /\ settings.max_retries >= 1
        /\ tasks[i].extract_log # <<>>
        /\ tasks[i].extract_log[1] = "raised")
          => /\ tasks[i].pc = "raised"
             /\ tasks[i].calls = 1
             /\ tasks[i].extract_log = <<"raised">>
             /\ tasks[i].sleeps = <<>>

\* retries disabled, three attempts allowed, the first call failed
C10_Witness ==
    /\ mode = "frame"
    /\ ~retry_on_failure
    /\ settings.max_retries = 3
    /\ tasks[1].pc = "raised"
    /\ tasks[1].calls = 1
    /\ tasks[1].outcome.type = "ConnectError"

\* ------------------------------------------------------------------------
\* Properties of _apply_confidence_filtering (SpecFilter)
\* ------------------------------------------------------------------------
FilterDone == filter_call.pc \in {"done", "done_again"}

\* the entries of a list that are not below t, in order
RECURSIVE Surviving(_, _)
Surviving(entries, t) ==
    IF entries = <<>> THEN <<>>
    ELSE IF Head(entries).confidence < t
    THEN Surviving(Tail(entries), t)
    ELSE <<Head(entries)>> \o Surviving(Tail(entries), t)

AllBelow(m, t) ==
    /\ \A n \in 1..Len(m.text_detected) : m.text_detected[n].confidence < t
    /\ \A n \in 1..Len(m.landmarks) : m.landmarks[n].confidence < t

\* an IndoorMetadata whose every field is in its schema range
WellFormed(m) ==
    /\ m.scene_type \in SceneTypes
    /\ m.lighting_quality \in LightingQualities
    /\ InRange(m.scene_confidence)
    /\ InRange(m.frame_quality_score)
    /\ m.motion_blur_detected \in BOOLEAN
    /\ \A n \in 1..Len(m.text_detected) :
          m.text_detected[n].text # "" /\ InRange(m.text_detected[n].confidence)
    /\ \A n \in 1..Len(m.landmarks) :
          /\ m.landmarks[n].type \in LandmarkTypes
          /\ m.landmarks[n].direction \in Directions
          /\ m.landmarks[n].distance \in Distances
          /\ InRange(m.landmarks[n].confidence)

\* C11: for every threshold t and metadata M, filtering returns M with
\* text_detected and landmarks reduced to exactly the entries whose
\* confidence is at least t (equal to t is kept), in their original order,
\* every other field unchanged; when every detection is below t the result
\* is still a valid metadata with both lists empty.
C11_FilterKeepsExactlyAtLeastThreshold ==
    FilterDone =>
       LET M == filter_call.metadata_before
           F == filter_call.filtered
           t == filter_call.threshold
       IN /\ DOMAIN F = DOMAIN M
          /\ F.text_detected = Surviving(M.text_detected, t)
          /\ F.landmarks = Surviving(M.landmarks, t)
          /\ \A k \in DOMAIN M \ {"text_detected", "landmarks"} : F[k] = M[k]
          /\ (AllBelow(M, t)
                => /\ F.text_detected = <<>>
                   /\ F.landmarks = <<>>
                   /\ WellFormed(F))

\* threshold 0.5: of the texts at 0.3 and 0.5 the one at 0.5 stays, and the
\* only landmark, at 0.4, goes
C11_Witness ==
    /\ filter_call.pc = "done"
    /\ filter_call.threshold = 5
    /\ Len(filter_call.metadata_before.text_detected) = 2
    /\ filter_call.metadata_before.text_detected[1].confidence = 3
    /\ filter_call.metadata_before.text_detected[2].confidence = 5
    /\ Len(filter_call.filtered.text_detected) = 1
    /\ filter_call.filtered.text_detected[1].confidence = 5
    /\ Len(filter_call.metadata_before.landmarks) = 1
    /\ filter_call.filtered.landmarks = <<>>

\* C12: confidence filtering is idempotent: filtering the filtered metadata
\* at the same threshold gives the filtered metadata again.
C12_FilterIdempotent ==
    filter_call.pc = "done_again" => filter_call.again = filter_call.filtered

\* the second filtering of a metadata that lost a text and a landmark at the
\* first and kept one of each
C12_Witness ==
    /\ filter_call.pc = "done_again"
    /\ Len(filter_call.metadata_before.text_detected) = 2
    /\ Len(filter_call.metadata_before.landmarks) = 2
    /\ Len(filter_call.filtered.text_detected) = 1
    /\ Len(filter_call.filtered.landmarks) = 1
    /\ Len(filter_call.again.text_detected) = 1

\* ------------------------------------------------------------------------
\* Properties of process_frame on valid raw results (Spec)
\* ------------------------------------------------------------------------
\* a returned text or number against the raw value it was read from:
\* character for character, or as the schema reads it
TextVerbatim(t, v) == v.pad = 0 /\ t = v.val
TextTrimmed(t, v) == t = v.val
NumberVerbatim(c, v) == v.ty = "number" /\ c = v.val
ParsedNumber(v) == IF v.ty = "number" THEN v.val ELSE StrToFloat(v.val)
NumberParsed(c, v) == c = ParsedNumber(v)

\* the entries of a valid raw list that are not below the threshold
RawKept(raw, key) ==
    IF Has(raw, key)
    THEN SelectSeq(raw[key].val,
                   LAMBDA item : ~(ParsedNumber(item.val["confidence"])
                                      < settings.confidence_threshold))
    ELSE <<>>

\* the outcome of task t carries the fields of its raw result, with the
\* defaults of the schema and without the entries below the threshold
RoundTrip(t, TextEq(_, _), NumEq(_, _)) ==
    LET raw == t.raw_metadata
        out == t.outcome
        texts == RawKept(raw, "text_detected")
        marks == RawKept(raw, "landmarks")
    IN /\ out.scene_type = raw["scene_type"].val
       /\ NumEq(out.scene_confidence, raw["scene_confidence"])
       /\ NumEq(out.frame_quality_score, raw["frame_quality_score"])
       /\ out.lighting_quality =
             (IF Has(raw, "lighting_quality")
              THEN raw["lighting_quality"].val ELSE "good")
       /\ out.motion_blur_detected =
             (IF Has(raw, "motion_blur_detected")
              THEN raw["motion_blur_detected"].val ELSE FALSE)
       /\ out.relative_position_cues =
             (IF Has(raw, "relative_position_cues")
              THEN [n \in 1..Len(raw["relative_position_cues"].val) |->
                       raw["relative_position_cues"].val[n].val]
              ELSE <<>>)
       /\ out.processing_notes =
             (IF Has(raw, "processing_notes")
                   /\ raw["processing_notes"].ty = "string"
              THEN <<raw["processing_notes"].val>> ELSE <<>>)
       /\ Len(out.text_detected) = Len(texts)
       /\ \A n \in 1..Len(texts) :
             /\ TextEq(out.text_detected[n].text, texts[n].val["text"])
             /\ NumEq(out.text_detected[n].confidence,
                      texts[n].val["confidence"])
             /\ out.text_detected[n].includes_arrow =
                   (IF Has(texts[n].val, "includes_arrow")
                    THEN texts[n].val["includes_arrow"].val ELSE FALSE)
       /\ Len(out.landmarks) = Len(marks)
       /\ \A n \in 1..Len(marks) :
             /\ out.landmarks[n].type = marks[n].val["type"].val
             /\ out.landmarks[n].direction = marks[n].val["direction"].val
             /\ out.landmarks[n].distance = marks[n].val["distance"].val
             /\ NumEq(out.landmarks[n].confidence, marks[n].val["confidence"])
             /\ out.landmarks[n].additional_info =
                   (IF Has(marks[n].val, "additional_info")
                         /\ marks[n].val["additional_info"].ty = "string"
                    THEN <<marks[n].val["additional_info"].val>> ELSE <<>>)

ReturnedFromValid(t) ==
    t.pc = "returned" /\ IndoorMetadataValid(t.raw_metadata)

\* C13, as stated: for every raw result that satisfies the schema,
\* process_frame returns an IndoorMetadata whose fields equal the raw
\* fields (absent lighting_quality and motion_blur_detected taking good and
\* false), changed only by the removal of entries below the threshold; no
\* other value is altered.
C13_ValidRawReturnedVerbatim ==
    \A i \in Frames :
       ReturnedFromValid(tasks[i])
          => RoundTrip(tasks[i], TextVerbatim, NumberVerbatim)

\* C13, amended: for every raw result that satisfies the schema,
\* process_frame returns an IndoorMetadata whose fields equal the raw fields
\* as the schema reads them: each text without its surrounding whitespace,
\* each numeric string as the number it spells, absent optional fields at
\* their defaults; apart from that only the entries below the threshold are
\* removed.
C13_ValidRawReturnedAsParsed ==
    \A i \in Frames :
       ReturnedFromValid(tasks[i])
          => RoundTrip(tasks[i], TextTrimmed, NumberParsed)

\* a valid raw result without lighting_quality whose text " Floor 3 " is
\* returned as "Floor 3" while its second text, below the threshold, is
\* removed
C13_Witness ==
    /\ mode = "frame"
    /\ ReturnedFromValid(tasks[1])
    /\ ~Has(tasks[1].raw_metadata, "lighting_quality")
    /\ Has(tasks[1].raw_metadata, "text_detected")
    /\ Len(tasks[1].raw_metadata["text_detected"].val) = 2
    /\ tasks[1].raw_metadata["text_detected"].val[1].val["text"].pad = 1
    /\ Len(tasks[1].outcome.text_detected) = 1
    /\ tasks[1].outcome.text_detected[1].text = "Floor 3"
    /\ tasks[1].outcome.lighting_quality = "good"

\* ------------------------------------------------------------------------
\* Properties of _attempt_fix_validation_errors (SpecRepair)
\* ------------------------------------------------------------------------
RepairReturned ==
    /\ repair_call.pc \in {"done", "done_again"}
    /\ repair_call.result.status = "returned"

\* the entries of a raw list value: a value that is not a list has none
EntriesOf(raw, key) ==
    IF Has(raw, key) /\ raw[key].ty = "list" THEN raw[key].val ELSE <<>>

\* the entries that are objects carrying every key of keys, in order
RECURSIVE Carrying(_, _)
Carrying(items, keys) ==
    IF items = <<>> THEN <<>>
    ELSE IF Head(items).ty = "dict" /\ keys \subseteq DOMAIN Head(items).val
    THEN <<Head(items)>> \o Carrying(Tail(items), keys)
    ELSE Carrying(Tail(items), keys)

ClampedInto(n) == IF n < 0 THEN 0 ELSE IF n > 10 THEN 10 ELSE n

ThreeKeys == {"type", "direction", "distance"}

\* C14: whenever repair returns, the landmarks of its output are exactly the
\* input landmark entries that carry all of type, direction and distance, in
\* input order; an entry missing one of the three is absent, and repair
\* changes no field of a kept entry but its confidence.
C14_LandmarksWithAllThreeKept ==
    RepairReturned =>
       LET raw == repair_call.raw_before
           fixed == repair_call.result.fixed
           expected == Carrying(EntriesOf(raw, "landmarks"), ThreeKeys)
       IN /\ Has(fixed, "landmarks") <=> Has(raw, "landmarks")
          /\ Has(fixed, "landmarks") =>
                /\ fixed["landmarks"].ty = "list"
                /\ Len(fixed["landmarks"].val) = Len(expected)
                /\ \A n \in 1..Len(expected) :
                      LET out == fixed["landmarks"].val[n]
                      IN /\ out.ty = "dict"
                         /\ DOMAIN out.val
                               = DOMAIN expected[n].val \cup {"confidence"}
                         /\ \A k \in DOMAIN expected[n].val \ {"confidence"} :
                               out.val[k] = expected[n].val[k]

\* a door without distance followed by a complete door: only the second is
\* in the output
C14_Witness ==
    /\ RepairReturned
    /\ Has(repair_call.raw_before, "landmarks")
    /\ repair_call.raw_before["landmarks"].ty = "list"
    /\ Len(repair_call.raw_before["landmarks"].val) = 2
    /\ ~Has(repair_call.raw_before["landmarks"].val[1].val, "distance")
    /\ Has(repair_call.raw_before["landmarks"].val[1].val, "type")
    /\ Len(repair_call.result.fixed["landmarks"].val) = 1
    /\ Has(repair_call.result.fixed["landmarks"].val[1].val, "distance")

\* C15: every landmark entry in the output of repair has type, direction
\* and distance values inside their closed enumerations; an entry with a
\* value outside its enumeration is discarded.
C15_RepairedLandmarksInEnumerations ==
    RepairReturned =>
       \A n \in 1..Len(EntriesOf(repair_call.result.fixed, "landmarks")) :
          LET out == EntriesOf(repair_call.result.fixed, "landmarks")[n].val
          IN /\ LiteralField(out["type"], LandmarkTypes)
             /\ LiteralField(out["direction"], Directions)
             /\ LiteralField(out["distance"], Distances)

\* C16: whenever repair returns, it has dropped each text entry that has no
\* text field and kept every other entry in input order, an entry without
\* confidence getting 0.5.
C16_TextsWithTextKept ==
    RepairReturned =>
       LET raw == repair_call.raw_before
           fixed == repair_call.result.fixed
           expected == Carrying(EntriesOf(raw, "text_detected"), {"text"})
       IN /\ Has(fixed, "text_detected") <=> Has(raw, "text_detected")
          /\ Has(fixed, "text_detected") =>
                /\ fixed["text_detected"].ty = "list"
                /\ Len(fixed["text_detected"].val) = Len(expected)
                /\ \A n \in 1..Len(expected) :
                      LET out == fixed["text_detected"].val[n]
                      IN /\ out.ty = "dict"
                         /\ DOMAIN out.val
                               = DOMAIN expected[n].val \cup {"confidence"}
                         /\ \A k \in DOMAIN expected[n].val \ {"confidence"} :
                               out.val[k] = expected[n].val[k]
                         /\ ~Has(expected[n].val, "confidence")
                               => out.val["confidence"] = Num(5)

\* an entry without text followed by "Suite 200" without confidence: the
\* output is "Suite 200" at 0.5
C16_Witness ==
    /\ RepairReturned
    /\ Has(repair_call.raw_before, "text_detected")
    /\ repair_call.raw_before["text_detected"].ty = "list"
    /\ Len(repair_call.raw_before["text_detected"].val) = 2
    /\ ~Has(repair_call.raw_before["text_detected"].val[1].val, "text")
    /\ ~Has(repair_call.raw_before["text_detected"].val[2].val, "confidence")
    /\ Len(repair_call.result.fixed["text_detected"].val) = 1
    /\ repair_call.result.fixed["text_detected"].val[1].val["confidence"]
          = Num(5)

\* C17: a text entry whose text is empty or only whitespace is dropped by
\* repair, so no text entry of the repaired output has empty text.
C17_RepairDropsBlankText ==
    RepairReturned =>
       \A n \in 1..Len(EntriesOf(repair_call.result.fixed, "text_detected")) :
          LET out == EntriesOf(repair_call.result.fixed, "text_detected")[n].val
          IN out["text"].ty = "string" => out["text"].val # ""

\* C18: repair of a raw map without scene_type yields scene_type unknown
\* and scene_confidence 0.3, whether or not the input carried a
\* scene_confidence; with scene_type but without scene_confidence it yields
\* scene_confidence 0.5; without frame_quality_score it yields
\* frame_quality_score 0.5.
C18_MissingRequiredFieldsDefaulted ==
    RepairReturned =>
       LET raw == repair_call.raw_before
           fixed == repair_call.result.fixed
       IN /\ ~Has(raw, "scene_type")
                => /\ fixed["scene_type"] = Str("unknown")
                   /\ fixed["scene_confidence"] = Num(3)
          /\ (Has(raw, "scene_type") /\ ~Has(raw, "scene_confidence"))
                => fixed["scene_confidence"] = Num(5)
          /\ ~Has(raw, "frame_quality_score")
                => fixed["frame_quality_score"] = Num(5)

\* a map with scene_confidence 0.9 and nothing else: unknown at 0.3, with
\* frame_quality_score 0.5
C18_Witness ==
    /\ RepairReturned
    /\ DOMAIN repair_call.raw_before = {"scene_confidence"}
    /\ repair_call.raw_before["scene_confidence"] = Num(9)
    /\ repair_call.result.fixed["scene_type"] = Str("unknown")
    /\ repair_call.result.fixed["scene_confidence"] = Num(3)
    /\ repair_call.result.fixed["frame_quality_score"] = Num(5)

\* a value repair cannot compare with a number or cannot iterate
Mistyped(raw) ==
    \/ /\ Has(raw, "scene_type")
       /\ Has(raw, "scene_confidence")
       /\ raw["scene_confidence"].ty # "number"
    \/ Has(raw, "frame_quality_score")
          /\ raw["frame_quality_score"].ty # "number"
    \/ \E key \in {"text_detected", "landmarks"} :
          /\ Has(raw, key)
          /\ \/ raw[key].ty \notin {"list", "string"}
             \/ \E n \in 1..Len(EntriesOf(raw, key)) :
                   LET item == EntriesOf(raw, key)[n]
                   IN /\ item.ty = "dict"
                      /\ Has(item.val, "confidence")
                      /\ item.val["confidence"].ty # "number"

\* the confidence of every kept entry of a list is the input confidence
\* clamped
EntriesClamped(raw, fixed, key, keys) ==
    LET expected == Carrying(EntriesOf(raw, key), keys)
    IN \A n \in 1..Len(expected) :
          Has(expected[n].val, "confidence")
             => EntriesOf(fixed, key)[n].val["confidence"]
                   = Num(ClampedInto(expected[n].val["confidence"].val))

ScoreAndEntriesClamped(raw, fixed) ==
    /\ Has(raw, "frame_quality_score")
          => fixed["frame_quality_score"]
                = Num(ClampedInto(raw["frame_quality_score"].val))
    /\ EntriesClamped(raw, fixed, "text_detected", {"text"})
    /\ EntriesClamped(raw, fixed, "landmarks", ThreeKeys)

RepairRaised ==
    /\ repair_call.pc = "done"
    /\ repair_call.result.status = "TypeError"

\* C19, as stated: after repair scene_confidence, frame_quality_score and
\* the confidence of every kept text and landmark entry equal the input
\* value clamped into [0,1], and an out-of-range confidence never causes an
\* entry or the frame to be rejected.
C19_EveryConfidenceIsInputClamped ==
    /\ RepairReturned =>
          LET raw == repair_call.raw_before
              fixed == repair_call.result.fixed
          IN /\ (Has(raw, "scene_confidence")
                    /\ raw["scene_confidence"].ty = "number")
                   => fixed["scene_confidence"]
                         = Num(ClampedInto(raw["scene_confidence"].val))
             /\ ScoreAndEntriesClamped(raw, fixed)
    /\ RepairRaised => Mistyped(repair_call.raw_before)

\* C19, amended: after repair frame_quality_score, the confidence of every
\* kept text and landmark entry and, when the input carries scene_type,
\* scene_confidence equal the input value clamped into [0,1]; when the
\* input has no scene_type, scene_confidence is 0.3 whatever the input
\* value was; an out-of-range number never causes an entry or the frame to
\* be rejected.
C19_ConfidenceClampedUnlessSceneUnknown ==
    /\ RepairReturned =>
          LET raw == repair_call.raw_before
              fixed == repair_call.result.fixed
          IN /\ (Has(raw, "scene_type") /\ Has(raw, "scene_confidence"))
                   => fixed["scene_confidence"]
                         = Num(ClampedInto(raw["scene_confidence"].val))
             /\ ~Has(raw, "scene_type")
                   => fixed["scene_confidence"] = Num(3)
             /\ ScoreAndEntriesClamped(raw, fixed)
    /\ RepairRaised => Mistyped(repair_call.raw_before)

\* scene_confidence 1.2 and frame_quality_score -0.2 with a scene_type:
\* returned as 1.0 and 0.0
C19_Witness ==
    /\ RepairReturned
    /\ Has(repair_call.raw_before, "scene_type")
    /\ Has(repair_call.raw_before, "scene_confidence")
    /\ Has(repair_call.raw_before, "frame_quality_score")
    /\ repair_call.raw_before["scene_confidence"] = Num(12)
    /\ repair_call.raw_before["frame_quality_score"] = Num(-2)
    /\ repair_call.result.fixed["scene_confidence"] = Num(10)
    /\ repair_call.result.fixed["frame_quality_score"] = Num(0)

\* C20: repair applied to a raw map that already satisfies the schema
\* returns a map equal to the input, and repair applied to its own output
\* returns that output again.
C20_RepairKeepsValidAndIsIdempotent ==
    /\ (repair_call.pc \in {"done", "done_again"}
          /\ IndoorMetadataValid(repair_call.raw_before))
         => /\ repair_call.result.status = "returned"
            /\ repair_call.result.fixed = repair_call.raw_before
    /\ repair_call.pc = "done_again"
         => repair_call.again = repair_call.result

\* ------------------------------------------------------------------------
\* Properties of fallback synthesis and processing notes (Spec)
\* ------------------------------------------------------------------------
\* the raw result does not validate, repair returns, and the repaired map
\* does not validate either: the ValidationError leaves _validate_and_parse
RepairedInvalid(raw) ==
    /\ ~IndoorMetadataValid(raw)
    /\ ~attempt_fix_validation_errors_raises(raw)
    /\ ~IndoorMetadataValid(attempt_fix_validation_errors(raw))

\* the raw result does not validate and the repaired map does
RepairedValid(raw) ==
    /\ ~IndoorMetadataValid(raw)
    /\ ~attempt_fix_validation_errors_raises(raw)
    /\ IndoorMetadataValid(attempt_fix_validation_errors(raw))

\* m is the fixed fallback value, valid, with notes that end with reason
IsFallback(m, reason) ==
    /\ m = [scene_type |-> "unknown", scene_confidence |-> 1,
            text_detected |-> <<>>, landmarks |-> <<>>,
            relative_position_cues |-> <<>>, lighting_quality |-> "poor",
            motion_blur_detected |-> TRUE, frame_quality_score |-> 2,
            processing_notes |-> m.processing_notes]
    /\ WellFormed(m)
    /\ m.processing_notes # <<>>
    /\ m.processing_notes[1] = "Extraction failed: "
    /\ EndsWith(m.processing_notes, reason)

\* C21: for every reason, fallback synthesis gives the same fixed value
\* (unknown, 0.1, empty lists, poor, motion blur, 0.2) with the reason in
\* its notes; the value satisfies the schema and reaches the caller without
\* a call of confidence filtering.
C21_FallbackIsFixedValidUnfiltered ==
    /\ \A i \in Frames :
          tasks[i].pc = "returned" =>
             /\ RepairedInvalid(tasks[i].raw_metadata) <=> ~tasks[i].filtered
             /\ ~tasks[i].filtered
                   => IsFallback(tasks[i].outcome,
                                 <<"Validation failed: ", "ValidationError">>)
    /\ batch_pc = "done" =>
          \A i \in Frames :
             tasks[i].pc = "raised"
                => IsFallback(processed_results[i],
                              <<"Batch processing error: ">>
                                 \o tasks[i].outcome.msg)

\* a finished batch with a fallback for a raw result that stays invalid
\* after repair and a fallback for a frame whose process_frame raised
C21_Witness ==
    /\ batch_pc = "done"
    /\ \E i, j \in Frames :
          /\ tasks[i].pc = "returned"
          /\ RepairedInvalid(tasks[i].raw_metadata)
          /\ ~tasks[i].filtered
          /\ processed_results[i].scene_confidence = 1
          /\ tasks[j].pc = "raised"
          /\ tasks[j].outcome.type = "ConnectError"
          /\ processed_results[j].frame_quality_score = 2

\* C22: every IndoorMetadata process_frame returns that was produced by
\* schema repair (the raw result failed validation and the repaired map
\* validated) or by fallback synthesis has non-empty processing_notes.
C22_RepairedOrFallbackHasNotes ==
    \A i \in Frames :
       (/\ tasks[i].pc = "returned"
        /\ \/ RepairedValid(tasks[i].raw_metadata)
           \/ RepairedInvalid(tasks[i].raw_metadata))
          => tasks[i].outcome.processing_notes # <<>>

\* ------------------------------------------------------------------------
\* Properties of the batch's admission slots (Spec)
\* ------------------------------------------------------------------------
Queued == {i \in Frames : tasks[i].pc = "waiting"}
InBackoff == {i \in Frames : tasks[i].pc = "sleeping"}
\* frames that have a slot and are at, or about to start, an extract call
Extracting == {i \in Frames : tasks[i].pc \in {"granted", "extracting"}}

\* C23: in process_frame_batch a frame in its backoff wait does not keep a
\* queued frame from starting its extract call: whenever a frame queues for
\* a slot while another is in backoff, all max_concurrent slots are in use
\* by frames that are not in backoff (with max_concurrent = 1 and two
\* frames, the second extracts while the first waits out its backoff).
C23_BackoffDoesNotHoldBackQueue ==
    (mode = "batch" /\ Queued # {} /\ InBackoff # {})
       => Cardinality(Extracting) = max_concurrent

\* ------------------------------------------------------------------------
\* Properties of frame independence (Spec)
\* ------------------------------------------------------------------------
\* what one process_frame call yields, from the extract outcomes of its own
\* frame alone: t.extract_log, and the payload of the last of them
\* (t.raw_metadata after a return, t.last_error after a failure)
OwnOutcome(t) ==
    IF t.extract_log = <<>>
    THEN [pc |-> "raised",
          value |-> Err("ValueError",
                        <<"Failed to extract metadata after ",
                          ToString(settings.max_retries), " attempts: ",
                          "None">>)]
    ELSE IF Last(t.extract_log) = "raised"
    THEN [pc |-> "raised", value |-> t.last_error]
    ELSE IF IndoorMetadataValid(t.raw_metadata)
    THEN [pc |-> "returned",
          value |-> apply_confidence_filtering(
                       IndoorMetadata(t.raw_metadata),
                       settings.confidence_threshold)]
    ELSE IF RepairedValid(t.raw_metadata)
    THEN [pc |-> "returned",
          value |-> apply_confidence_filtering(
                       IndoorMetadata(
                          attempt_fix_validation_errors(t.raw_metadata)),
                       settings.confidence_threshold)]
    ELSE IF RepairedInvalid(t.raw_metadata)
    THEN [pc |-> "returned",
          value |-> create_fallback_metadata(
                       <<"Validation failed: ", "ValidationError">>)]
    ELSE [pc |-> "raised", value |-> TypeErrorValue]

\* C24: in process_frame_batch result i depends only on the extract
\* outcomes of frame i, whatever the other frames did: it is what a
\* process_frame call on its own yields from those outcomes, or the
\* fallback for the error that call raises.
C24_ResultDependsOnOwnFrameOnly ==
    /\ mode = "frame" =>
          \A i \in Frames :
             tasks[i].pc \in Terminal
                => /\ tasks[i].pc = OwnOutcome(tasks[i]).pc
                   /\ tasks[i].outcome = OwnOutcome(tasks[i]).value
    /\ batch_pc = "done" =>
          \A i \in Frames :
             processed_results[i] =
                IF OwnOutcome(tasks[i]).pc = "raised"
                THEN create_fallback_metadata(
                        <<"Batch processing error: ">>
                           \o OwnOutcome(tasks[i]).value.msg)
                ELSE OwnOutcome(tasks[i]).value

\* a finished batch in which one frame used up its retries on transport
\* errors while another, after one failure of its own, returned a value
C24_Witness ==
    /\ batch_pc = "done"
    /\ settings.max_retries = 2
    /\ \E i, j \in Frames :
          /\ tasks[i].pc = "raised"
          /\ tasks[i].extract_log = <<"raised", "raised">>
          /\ tasks[j].pc = "returned"
          /\ tasks[j].extract_log = <<"raised", "returned">>
          /\ processed_results[j].scene_type = "hallway"
          /\ processed_results[i].scene_type = "unknown"

\* ------------------------------------------------------------------------
\* Properties of extract_metadata (SpecExtract)
\* ------------------------------------------------------------------------
\* C25: extract_metadata either returns a map obtained from a 2xx response
\* or fails with an error: when every probed endpoint answers with a
\* non-2xx status it fails, and the body of a non-2xx response is never
\* returned as a raw result.
C25_ExtractReturnsOnly2xxBody ==
    extract_call.pc = "returned" =>
       /\ IsSuccess(extract_call.response.status)
       /\ \E n \in 1..Len(extract_call.log) : extract_call.log[n] = "2xx"

\* ------------------------------------------------------------------------
\* Properties of termination (FairSpec)
\* ------------------------------------------------------------------------
AllTerminal == \A i \in Frames : tasks[i].pc \in Terminal

\* the calls and waits of a process_frame call stay within the retry limit
WithinRetryLimit(t) ==
    /\ t.attempt >= 0
    /\ t.attempt <= Max2(0, settings.max_retries)
    /\ t.calls <= Max2(0, settings.max_retries)
    /\ Len(t.sleeps) <= Max2(0, settings.max_retries - 1)

\* the attempt counter moves only by +1, in a step in which an extract call
\* of the frame fails
AttemptOnlyOnTransportFailure ==
    \A i \in Frames :
       tasks'[i].attempt # tasks[i].attempt
          => /\ tasks'[i].attempt = tasks[i].attempt + 1
             /\ tasks'[i].extract_log = Append(tasks[i].extract_log, "raised")

\* C26: when every extract call returns or fails, every process_frame call
\* terminates, after at most max_retries extract calls and at most
\* max_retries - 1 backoff waits; the attempt counter starts at 0, changes
\* only by +1 on a transport failure and never exceeds max_retries.
C26_ProcessFrameTerminatesBounded ==
    /\ \A i \in Frames : tasks[i].attempt = 0
    /\ [](\A i \in Frames : WithinRetryLimit(tasks[i]))
    /\ [][AttemptOnlyOnTransportFailure]_vars
    /\ <>AllTerminal

\* frames that have been handed a slot
Admitted == {i \in Frames : tasks[i].pc \notin {"created", "waiting"}}

\* C27: in process_frame_batch with max_concurrent >= 1, under fair
\* scheduling and terminating extract calls, every frame that queues for a
\* slot is eventually admitted and the batch eventually returns; whatever
\* the order in which the frames completed, result i is that of frame i.
C27_QueuedFramesAdmittedBatchReturns ==
    /\ \A i \in 1..MaxFairFrames :
          (i \in Queued) ~> (i \in Admitted)
    /\ (mode = "batch") ~> (batch_pc = "done")
    /\ [](batch_pc = "done" =>
            /\ Len(processed_results) = n_frames
            /\ \A i \in Frames :
                  IF tasks[i].pc = "returned"
                  THEN processed_results[i] = tasks[i].outcome
                  ELSE EndsWith(processed_results[i].processing_notes,
                                tasks[i].outcome.msg))

\* two frames on one slot: the second queued while the first ran, and has
\* been handed the slot now that the first has completed
C27_Witness ==
    /\ mode = "batch"
    /\ n_frames = 2
    /\ max_concurrent = 1
    /\ tasks[1].pc \in Terminal
    /\ tasks[2].pc = "granted"
    /\ semaphore.waiters = <<2>>

\* C28: in process_frame_batch a frame's slot is released whenever its
\* process_frame finishes, by returning or by raising: in every reachable
\* state the frames holding a slot and the free slots add up to
\* max_concurrent, and when the batch returns every slot is free.
C28_SlotsAccountedFor ==
    mode = "batch" =>
       /\ semaphore.value >= 0
       /\ Cardinality({i \in Frames : tasks[i].pc \in HoldsSlot})
             + semaphore.value = max_concurrent
       /\ batch_pc = "done" => semaphore.value = max_concurrent

\* a finished batch of more frames than slots in which a frame left by
\* raising and another by returning, with every slot free again
C28_Witness ==
    /\ batch_pc = "done"
    /\ n_frames > max_concurrent
    /\ semaphore.value = max_concurrent
    /\ semaphore.waiters = <<>>
    /\ \E i, j \in Frames :
          tasks[i].pc = "raised" /\ tasks[j].pc = "returned"

\* ------------------------------------------------------------------------
\* Properties of a retry limit of zero or less (Spec)
\* ------------------------------------------------------------------------
\* C29: with max_retries <= 0 process_frame makes no extract call at all
\* and fails with the error that reports the attempt count and the last
\* error, the one raised after the loop.
C29_NoCallWhenLimitNotPositive ==
    settings.max_retries <= 0 =>
       \A i \in Frames :
          /\ tasks[i].calls = 0
          /\ tasks[i].extract_log = <<>>
          /\ tasks[i].sleeps = <<>>
          /\ tasks[i].pc \in {"created", "waiting", "granted", "raised"}
          /\ tasks[i].pc = "raised" =>
                tasks[i].outcome =
                   Err("ValueError",
                       <<"Failed to extract metadata after ",
                         ToString(settings.max_retries), " attempts: ",
                         "None">>)

\* a direct call with max_retries 0 that has raised
C29_Witness ==
    /\ mode = "frame"
    /\ settings.max_retries = 0
    /\ tasks[1].pc = "raised"
    /\ tasks[1].calls = 0
    /\ tasks[1].outcome.type = "ValueError"

\* ------------------------------------------------------------------------
\* Properties of repair's effect on its argument (SpecRepair)
\* ------------------------------------------------------------------------
\* C30: schema repair leaves its input raw map unchanged: after the call
\* the caller's map, every nested text and landmark entry included, has
\* the keys and values it had before.
C30_RepairLeavesInputUnchanged ==
    repair_call.pc \in {"done", "done_again"}
       => repair_call.raw_data = repair_call.raw_before

\* ------------------------------------------------------------------------
\* Properties of filtering's effect on its argument (SpecFilter)
\* ------------------------------------------------------------------------
\* C31: confidence filtering does not modify the metadata it is given:
\* after the call the argument's text_detected and landmarks, like all its
\* fields, still hold their original entries, and the filtered result is
\* a distinct object.
C31_FilterLeavesArgumentUnchanged ==
    FilterDone =>
       /\ filter_call.metadata = filter_call.metadata_before
       /\ filter_call.returned # filter_call.argument

\* a call that removed a text and a landmark from the result while the
\* argument still has both
C31_Witness ==
    /\ FilterDone
    /\ Len(filter_call.filtered.text_detected)
          < Len(filter_call.metadata.text_detected)
    /\ Len(filter_call.filtered.landmarks)
          < Len(filter_call.metadata.landmarks)
    /\ filter_call.metadata.text_detected
          = filter_call.metadata_before.text_detected
    /\ filter_call.returned # filter_call.argument

\* ------------------------------------------------------------------------
\* Properties of the endpoint probing of extract_metadata (SpecExtract)
\* ------------------------------------------------------------------------
\* C32: within one extract call the client posts to the endpoints in the
\* fixed order base/streams, base/analyze, base/frames, base; it posts
\* nothing after the first 2xx response; a 404 moves on to the next
\* endpoint; another status error ends the call at once by raising it; an
\* exception that is not a status error moves on to the next endpoint
\* unless it came from the last one, where it is raised.
C32_EndpointsProbedInOrder ==
    LET c == extract_call
        n == Len(c.log)
        order == <<"/streams", "/analyze", "/frames", "">>
    IN /\ Len(c.requests) = n
       /\ n <= Len(order)
       /\ \A k \in 1..n : c.requests[k] = order[k]
       /\ c.pc = "posting" => c.endpoint = n + 1 /\ n < Len(order)
       /\ \A k \in 1..(n - 1) : c.log[k] \in {"404", "error"}
       /\ n >= 1 =>
             CASE c.log[n] = "2xx" -> c.pc # "posting"
               [] c.log[n] = "404" -> n < Len(order) => c.pc = "posting"
               [] c.log[n] = "error" ->
                     IF n < Len(order) THEN c.pc = "posting"
                     ELSE c.pc = "raised" /\ c.outcome = c.last_error
                          /\ c.outcome.type \in {"ConnectError", "ReadTimeout"}
               [] OTHER ->
                     c.pc = "raised" /\ c.outcome = StatusError(500)

\* a call that went through all four endpoints, past a 404 and a failed
\* connection, and ended on a 2xx response of the last one
C32_Witness ==
    /\ extract_call.pc \in {"returned", "raised"}
    /\ extract_call.requests = <<"/streams", "/analyze", "/frames", "">>
    /\ extract_call.log[1] = "404"
    /\ extract_call.log[2] = "error"
    /\ extract_call.log[4] = "2xx"

\* ------------------------------------------------------------------------
\* Properties of POST /extract/batch (SpecBatchApi)
\* ------------------------------------------------------------------------
\* C33: /extract/batch answers an upload of at most 50 files with a list
\* of exactly one metadata per uploaded file, element i belonging to
\* uploaded file i; an upload of more than 50 files is rejected with
\* status 400 before any frame is processed.
C33_BatchEndpointOneResultPerFile ==
    batch_request.pc = "responded" =>
       LET files == batch_request.files
           response == batch_request.response
       IN IF Len(files) <= 50
          THEN /\ response.status = 200
               /\ Len(response.body) = Len(files)
               /\ \A i \in 1..Len(files) :
                     response.body[i].frame = files[i].data
          ELSE /\ response.status = 400
               /\ response.frames_data = <<>>

\* ------------------------------------------------------------------------
\* Properties of the observation endpoints (SpecObservations)
\* ------------------------------------------------------------------------
\* what get_observations is to answer for a device
Expected(d) ==
    [device_id |-> d, observations |-> observations.saved[d],
     count |-> Len(observations.saved[d])]

\* C34: after any sequence of save_observation, clear_observations and
\* get_observations calls, get_observations of a device returns exactly
\* the observations saved for it since its last clear, in save order; each
\* save_observation returns total_observations equal to their number; and
\* get_observations after a clear returns an empty list with count 0.
C34_ObservationsSinceLastClear ==
    LET last == observations.last
    IN /\ \A d \in DeviceIds :
             get_observations(observations.files, d) = Expected(d)
       /\ last.op = "save" =>
             /\ last.response.status = "success"
             /\ last.response.total_observations
                  = Len(observations.saved[last.device_id])
       /\ last.op = "get" => last.response = Expected(last.device_id)
       /\ last.op = "clear" =>
             get_observations(observations.files, last.device_id)
                = [device_id |-> last.device_id, observations |-> <<>>,
                   count |-> 0]

\* a device that was cleared and then saved two different observations
\* gets both back, in order
C34_Witness ==
    /\ observations.last.op = "get"
    /\ observations.cleared[observations.last.device_id]
    /\ observations.last.response.count = 2
    /\ observations.last.response.observations[1].gps_accuracy = 12
    /\ observations.last.response.observations[2].gps_accuracy = 5

\* C35: save_observation and clear_observations for one device leave the
\* stored observations of every other device unchanged: get_observations
\* of the other device returns the same before and after.
C35_OtherDevicesUntouched ==
    [][observations'.last.op \in {"save", "clear"} =>
          \A d \in DeviceIds \ {observations'.last.device_id} :
             get_observations(observations'.files, d)
                = get_observations(observations.files, d)]_vars

\* one device has just saved or cleared while the other holds observations
C35_Witness ==
    /\ observations.last.op \in {"save", "clear"}
    /\ \E d \in DeviceIds \ {observations.last.device_id} :
          get_observations(observations.files, d).count = MaxStored

====
